---- MODULE Spec2Model ----
(***************************************************************************)
(* CompareSet viewer engine: the raster diff (diff.ts), the region         *)
(* classifier (regions.ts, coords.ts), the overlay writer (overlayPdf.ts), *)
(* the orchestrator (compare.ts) and the compare worker.                   *)
(*                                                                         *)
(* Lengths in document points are kept in hundredths of a point (the       *)
(* precision round2 keeps), so that the arithmetic stays in the integers.  *)
(***************************************************************************)
EXTENDS Integers, Sequences, FiniteSets, TLC

\* ------------------------------------------------------------------------
\* Bounds of the model
\* ------------------------------------------------------------------------
\* the canvas of the pure-function specification SpecDiff, in pixels
CanvasW == 12
CanvasH == 11
\* at most this many strokes are painted onto the two pages of one input
MaxStrokes == 3
\* a document of the pipeline specification Spec has at most this many pages
MaxPages == 2
\* the masks of SpecMorph are MorphSide wide and MorphSide - 1 high
MorphSide == 6
CoordSide == 3
SceneSide == 64
MaxGrid == 3

\* ------------------------------------------------------------------------
\* Small helpers
\* ------------------------------------------------------------------------
Min2(a, b) == IF a < b THEN a ELSE b
Max2(a, b) == IF a > b THEN a ELSE b
Abs(a) == IF a < 0 THEN 0 - a ELSE a
\* the same function as f, with every value computed once (a typed array)
Stored(f) == f @@ << >>

\* ------------------------------------------------------------------------
\* diff.ts
\* ------------------------------------------------------------------------
\* A PixelBuffer is [width, height, data], data indexed 0 .. width*height-1.
Pixels(width, height) == 0 .. (width * height - 1)

dilate(mask, width, height) == Stored(
  [i \in Pixels(width, height) |->
     LET x == i % width
         y == i \div width
     IN IF \E dy \in -1 .. 1, dx \in -1 .. 1 :
             /\ y + dy >= 0 /\ y + dy < height
             /\ x + dx >= 0 /\ x + dx < width
             /\ mask[(y + dy) * width + (x + dx)] > 0
        THEN 1 ELSE 0])

\* erode gone wrong: neighbours outside the canvas are passed over, as in dilate
erodeInsideCanvas(mask, width, height) == Stored(
  [i \in Pixels(width, height) |->
     LET x == i % width
         y == i \div width
     IN IF \A dy \in -1 .. 1, dx \in -1 .. 1 :
             \/ y + dy < 0 \/ y + dy >= height
             \/ x + dx < 0 \/ x + dx >= width
             \/ mask[(y + dy) * width + (x + dx)] # 0
        THEN 1 ELSE 0])

erode(mask, width, height) == Stored(
  [i \in Pixels(width, height) |->
     LET x == i % width
         y == i \div width
     IN IF \A dy \in -1 .. 1, dx \in -1 .. 1 :
             /\ y + dy >= 0 /\ y + dy < height
             /\ x + dx >= 0 /\ x + dx < width
             /\ mask[(y + dy) * width + (x + dx)] # 0
        THEN 1 ELSE 0])

\* morphClose gone wrong: the erosion after the dilation is left out
morphCloseDilateOnly(mask, width, height) == dilate(mask, width, height)

morphClose(mask, width, height) == erode(dilate(mask, width, height), width, height)

\* morphOpen gone wrong: the dilation after the erosion is left out
morphOpenErodeOnly(mask, width, height) == erode(mask, width, height)

morphOpen(mask, width, height) == dilate(erode(mask, width, height), width, height)

\* offsets gone wrong: the diagonal neighbours are followed too
offsetsWithDiagonals ==
  << [dx |-> 1, dy |-> 0], [dx |-> -1, dy |-> 0],
     [dx |-> 0, dy |-> 1], [dx |-> 0, dy |-> -1],
     [dx |-> 1, dy |-> 1], [dx |-> -1, dy |-> 1],
     [dx |-> 1, dy |-> -1], [dx |-> -1, dy |-> -1] >>

\* the four neighbours, in the order the flood fill enumerates them
offsets ==
  << [dx |-> 1, dy |-> 0], [dx |-> -1, dy |-> 0],
     [dx |-> 0, dy |-> 1], [dx |-> 0, dy |-> -1] >>

\* the body of "for (const {dx, dy} of offsets)": sv = [stack, visited]
RECURSIVE PushNeighbours(_, _, _, _, _, _, _)
PushNeighbours(k, cx, cy, mask, width, height, sv) ==
  IF k > Len(offsets) THEN sv
  ELSE LET nx == cx + offsets[k].dx
           ny == cy + offsets[k].dy
           nIndex == ny * width + nx
           skip == \/ nx < 0 \/ nx >= width \/ ny < 0 \/ ny >= height
                   \/ mask[nIndex] = 0 \/ sv.visited[nIndex] = 1
       IN PushNeighbours(k + 1, cx, cy, mask, width, height,
            IF skip THEN sv
            ELSE [stack |-> Append(sv.stack, nIndex),
                  visited |-> [sv.visited EXCEPT ![nIndex] = 1]])

\* a round that keeps the last pixel taken as the far corner of the box
FloodStepLastPixelCorner(acc, mask, width, height, oldPixels, newPixels) ==
  IF Len(acc.stack) = 0 THEN acc
  ELSE LET current == acc.stack[Len(acc.stack)]
           cx == current % width
           cy == current \div width
           sv == PushNeighbours(1, cx, cy, mask, width, height,
                   [stack |-> SubSeq(acc.stack, 1, Len(acc.stack) - 1),
                    visited |-> acc.visited])
       IN [stack |-> sv.stack, visited |-> sv.visited,
           minX |-> Min2(acc.minX, cx), maxX |-> cx,
           minY |-> Min2(acc.minY, cy), maxY |-> cy,
           area |-> acc.area + 1,
           sumOld |-> acc.sumOld + oldPixels.data[current],
           sumNew |-> acc.sumNew + newPixels.data[current]]

\* one round of the "while (stack.length)" loop of findRegions; acc holds
\* the loop's locals, and with an empty stack there is no round
FloodStep(acc, mask, width, height, oldPixels, newPixels) ==
  IF Len(acc.stack) = 0 THEN acc
  ELSE LET current == acc.stack[Len(acc.stack)]
           cx == current % width
           cy == current \div width
           sv == PushNeighbours(1, cx, cy, mask, width, height,
                   [stack |-> SubSeq(acc.stack, 1, Len(acc.stack) - 1),
                    visited |-> acc.visited])
       IN [stack |-> sv.stack, visited |-> sv.visited,
           minX |-> Min2(acc.minX, cx), maxX |-> Max2(acc.maxX, cx),
           minY |-> Min2(acc.minY, cy), maxY |-> Max2(acc.maxY, cy),
           area |-> acc.area + 1,
           sumOld |-> acc.sumOld + oldPixels.data[current],
           sumNew |-> acc.sumNew + newPixels.data[current]]

\* four rounds, sixteen rounds: the loop is run sixteen rounds at a time
FloodSteps4(acc, mask, width, height, oldPixels, newPixels) ==
  FloodStep(FloodStep(FloodStep(FloodStep(acc,
    mask, width, height, oldPixels, newPixels),
    mask, width, height, oldPixels, newPixels),
    mask, width, height, oldPixels, newPixels),
    mask, width, height, oldPixels, newPixels)
FloodSteps16(acc, mask, width, height, oldPixels, newPixels) ==
  FloodSteps4(FloodSteps4(FloodSteps4(FloodSteps4(acc,
    mask, width, height, oldPixels, newPixels),
    mask, width, height, oldPixels, newPixels),
    mask, width, height, oldPixels, newPixels),
    mask, width, height, oldPixels, newPixels)

\* the "while (stack.length)" loop of findRegions
RECURSIVE FloodFill(_, _, _, _, _, _)
FloodFill(acc, mask, width, height, oldPixels, newPixels) ==
  IF Len(acc.stack) = 0 THEN acc
  ELSE FloodFill(FloodSteps16(acc, mask, width, height, oldPixels, newPixels),
                 mask, width, height, oldPixels, newPixels)

\* the row-major scan of findRegions from pixel `from` on: pixels that are
\* clear or visited are passed over, the next one left starts a flood fill
RECURSIVE ScanFrom(_, _, _, _, _, _, _, _, _)
ScanFrom(from, visited, regions, mask, width, height, oldPixels, newPixels, minArea) ==
  LET seeds == {i \in from .. (width * height - 1) : mask[i] # 0 /\ visited[i] # 1}
  IN IF seeds = {} THEN regions
     ELSE LET index == CHOOSE i \in seeds : \A j \in seeds : i <= j
              x == index % width
              y == index \div width
              acc == FloodFill(
                       [stack |-> << index >>,
                        visited |-> [visited EXCEPT ![index] = 1],
                        minX |-> x, maxX |-> x, minY |-> y, maxY |-> y,
                        area |-> 0, sumOld |-> 0, sumNew |-> 0],
                       mask, width, height, oldPixels, newPixels)
              region == [area |-> acc.area, minX |-> acc.minX, minY |-> acc.minY,
                         maxX |-> acc.maxX + 1, maxY |-> acc.maxY + 1,
                         sumOld |-> acc.sumOld, sumNew |-> acc.sumNew]
          IN ScanFrom(index + 1, acc.visited,
                      IF acc.area >= minArea THEN Append(regions, region) ELSE regions,
                      mask, width, height, oldPixels, newPixels, minArea)

RECURSIVE Reversed(_)
Reversed(seq) == IF Len(seq) = 0 THEN << >> ELSE Append(Reversed(Tail(seq)), Head(seq))

\* findRegions gone wrong: each region is put in front of the list (unshift)
findRegionsNewestFirst(mask, width, height, oldPixels, newPixels, minArea) ==
  Reversed(ScanFrom(0, Stored([i \in Pixels(width, height) |-> 0]), << >>,
                    mask, width, height, oldPixels, newPixels, minArea))

findRegions(mask, width, height, oldPixels, newPixels, minArea) ==
  ScanFrom(0, Stored([i \in Pixels(width, height) |-> 0]), << >>,
           mask, width, height, oldPixels, newPixels, minArea)

\* thresholdMask gone wrong: diff >= threshold
thresholdMaskInclusive(oldPixels, newPixels, threshold) == Stored(
  [i \in Pixels(oldPixels.width, oldPixels.height) |->
     IF Abs(oldPixels.data[i] - newPixels.data[i]) >= threshold THEN 1 ELSE 0])

\* thresholdMask gone wrong: Math.abs is left out
thresholdMaskSigned(oldPixels, newPixels, threshold) == Stored(
  [i \in Pixels(oldPixels.width, oldPixels.height) |->
     IF oldPixels.data[i] - newPixels.data[i] > threshold THEN 1 ELSE 0])

\* mask[i] = diff > threshold ? 1 : 0
thresholdMask(oldPixels, newPixels, threshold) == Stored(
  [i \in Pixels(oldPixels.width, oldPixels.height) |->
     IF Abs(oldPixels.data[i] - newPixels.data[i]) > threshold THEN 1 ELSE 0])

DimensionError == "Pixel buffers must have matching dimensions."

\* computeDiff gone wrong: buffers that do not match give an empty result
computeDiffNoThrow(oldPixels, newPixels, threshold, minArea) ==
  LET width == oldPixels.width
      height == oldPixels.height
  IN IF width # newPixels.width \/ height # newPixels.height
     THEN [error |-> "", regions |-> << >>, mask |-> << >>]
     ELSE LET mask == thresholdMask(oldPixels, newPixels, threshold)
              closed == morphClose(mask, width, height)
              opened == morphOpen(closed, width, height)
          IN [error |-> "",
              regions |-> findRegions(opened, width, height, oldPixels, newPixels, minArea),
              mask |-> opened]

\* computeDiff either throws (error # "") or returns regions and mask
computeDiff(oldPixels, newPixels, threshold, minArea) ==
  LET width == oldPixels.width
      height == oldPixels.height
  IN IF width # newPixels.width \/ height # newPixels.height
     THEN [error |-> DimensionError, regions |-> << >>, mask |-> << >>]
     ELSE LET mask == thresholdMask(oldPixels, newPixels, threshold)
              closed == morphClose(mask, width, height)
              opened == morphOpen(closed, width, height)
          IN [error |-> "",
              regions |-> findRegions(opened, width, height, oldPixels, newPixels, minArea),
              mask |-> opened]

\* ------------------------------------------------------------------------
\* coords.ts, regions.ts
\* ------------------------------------------------------------------------
\* round2 gone wrong: the hundredths are cut off, not rounded
round2PxToPtTruncated(pixels, dpi) == (7200 * pixels) \div dpi

\* round2(pixels / scale) in hundredths of a point, with scale = dpi / 72:
\* Math.round(pixels * 72 / dpi * 100), Math.round rounding halves up
round2PxToPt(pixels, dpi) == (2 * 7200 * pixels + dpi) \div (2 * dpi)

\* pixelBBoxToPdf gone wrong: the rows are not counted from the bottom
pixelBBoxToPdfNoFlip(region, transform) ==
  << round2PxToPt(region.minX, transform.dpi),
     round2PxToPt(region.minY, transform.dpi),
     round2PxToPt(region.maxX, transform.dpi),
     round2PxToPt(region.maxY, transform.dpi) >>

\* transform = [dpi, canvasHeightPx]; the result is <<x0, y0, x1, y1>>
pixelBBoxToPdf(region, transform) ==
  << round2PxToPt(region.minX, transform.dpi),
     round2PxToPt(transform.canvasHeightPx - region.maxY, transform.dpi),
     round2PxToPt(region.maxX, transform.dpi),
     round2PxToPt(transform.canvasHeightPx - region.minY, transform.dpi) >>

\* the minimum gone wrong: 0.2 is taken for points, without mmToPt
belowMinDimNoMmToPt(len) == len < 20

\* len / 100 < MIN_DIM_PT = mmToPt(0.2) = 0.2 / 25.4 * 72, cleared of fractions
belowMinDim(len) == len * 254 < 2 * 72 * 100

\* resolveType gone wrong: ink in neither source is taken for an addition
resolveTypeNoInkAdded(sumOld, sumNew, area) ==
  LET activeOld == sumOld < 245 * area
      activeNew == sumNew < 245 * area
  IN IF activeOld /\ ~activeNew THEN "removed"
     ELSE IF ~activeOld THEN "added"
     ELSE "modified"

resolveType(sumOld, sumNew, area) ==
  LET activeOld == sumOld < 245 * area   \* meanOld < 245
      activeNew == sumNew < 245 * area   \* meanNew < 245
  IN IF activeOld /\ ~activeNew THEN "removed"
     ELSE IF ~activeOld /\ activeNew THEN "added"
     ELSE "modified"

\* clamp gone wrong: the upper end is not enforced
clampNoUpper(value, lo, hi) == Max2(value, lo)

clamp(value, lo, hi) == Min2(Max2(value, lo), hi)

\* floor(center / (size / cells)) clamped to 0 .. cells-1, plus 1; the centre
\* is lo + hi over 2. A zero page size divides by zero: Infinity clamps to
\* the last cell, NaN (0 / 0) is shown as index 0.
gridIndex(lo, hi, size, cells) ==
  IF size > 0 THEN clamp(((lo + hi) * cells) \div (2 * size), 0, cells - 1) + 1
  ELSE IF lo + hi > 0 THEN cells ELSE 0

gridLabel(bbox, widthPt, heightPt, cols, rows) ==
  [row |-> gridIndex(bbox[2], bbox[4], heightPt, rows),
   col |-> gridIndex(bbox[1], bbox[3], widthPt, cols)]

RECURSIVE classifyFrom(_, _, _)
classifyFrom(k, regions, ctx) ==
  IF k > Len(regions) THEN << >>
  ELSE LET region == regions[k]
           bboxPdf == pixelBBoxToPdf(region,
                        [dpi |-> ctx.dpi, canvasHeightPx |-> ctx.canvasHeightPx])
           widthPt == bboxPdf[3] - bboxPdf[1]
           heightPt == bboxPdf[4] - bboxPdf[2]
           rest == classifyFrom(k + 1, regions, ctx)
       IN IF belowMinDim(widthPt) \/ belowMinDim(heightPt) THEN rest
          ELSE << [pageIndex |-> ctx.pageIndex,
                   gridCell |-> gridLabel(bboxPdf, ctx.pageWidthPt, ctx.pageHeightPt,
                                          ctx.gridCols, ctx.gridRows),
                   bboxPdfUnits |-> bboxPdf,
                   type |-> resolveType(region.sumOld, region.sumNew, region.area),
                   areaPx |-> region.area] >> \o rest

classifyRegions(regions, ctx) == classifyFrom(1, regions, ctx)

\* ------------------------------------------------------------------------
\* Documents and pages (what pdf.js and pdf-lib are given)
\* ------------------------------------------------------------------------
\* A page has a size in hundredths of a point and ink (intensity 0) at some
\* device pixels of its raster at scale 1; the rest of the page is white.
PageDots ==
  [widthPt |-> 500, heightPt |-> 500,
   ink |-> {<< 1, 1 >>, << 3, 1 >>, << 1, 3 >>, << 3, 3 >>}]
PageBlock ==
  [widthPt |-> 500, heightPt |-> 500, ink |-> (0 .. 4) \X (0 .. 4)]
\* a blank page whose size is no whole number of points (as A4 is)
PageOdd ==
  [widthPt |-> 650, heightPt |-> 550, ink |-> {}]
PageKinds == {PageDots, PageBlock, PageOdd}

RECURSIVE SeqsUpTo(_, _)
SeqsUpTo(S, n) ==
  IF n = 0 THEN {<< >>}
  ELSE LET shorter == SeqsUpTo(S, n - 1)
       IN shorter \cup {Append(q, e) : q \in {t \in shorter : Len(t) = n - 1}, e \in S}

\* A base64 input is the empty string, bytes that are no PDF, or a PDF.
EmptyInput == [kind |-> "empty", pages |-> << >>]
GarbageInput == [kind |-> "garbage", pages |-> << >>]
PdfInput(pageSeq) == [kind |-> "pdf", pages |-> pageSeq]

\* ------------------------------------------------------------------------
\* renderPdf.ts
\* ------------------------------------------------------------------------
\* Pixel lengths that need not be whole (a viewport) are kept in units of
\* 1/7200 pixel: a length of w hundredths of a point at scale dpi/72 is
\* w * dpi units.
PxUnit == 72 * 100
viewportOf(page, dpi) == [width |-> page.widthPt * dpi, height |-> page.heightPt * dpi]
Whole(v) == v % PxUnit = 0
CeilPx(v) == (v + PxUnit - 1) \div PxUnit
TruncPx(v) == v \div PxUnit

\* loadPdf: null for an empty string, else the document pdf.js opens
NullDoc == [isNull |-> TRUE, pages |-> << >>]
loadPdf(base64) ==
  IF base64.kind = "empty" THEN NullDoc
  ELSE [isNull |-> FALSE, pages |-> base64.pages]

numPages(doc) == Len(doc.pages)

\* targetWidth / scale, in hundredths of a point, rounded to the nearest
PxToPt(pixels, dpi) == (2 * 7200 * pixels + dpi) \div (2 * dpi)

blankBuffer(width, height) ==
  [width |-> width, height |-> height,
   data |-> Stored([i \in Pixels(width, height) |-> 255])]

\* byte k of the RGBA image getImageData(0, 0, viewport.width, viewport.height)
\* returns: the canvas is TruncPx(width) by TruncPx(height), white where the
\* page has no ink; -1 stands for undefined (k past the end of the array)
imageByte(page, viewport, k) ==
  LET iw == TruncPx(viewport.width)
      ih == TruncPx(viewport.height)
      px == (k \div 4) % iw
      py == (k \div 4) \div iw
  IN IF k < 0 \/ k >= iw * ih * 4 THEN -1
     ELSE IF k % 4 = 3 THEN 255
     ELSE IF << px, py >> \in page.ink THEN 0 ELSE 255

\* Math.round(0.299 r + 0.587 g + 0.114 b) stored in a Uint8ClampedArray:
\* an undefined operand gives NaN, which is stored as 0
grayOf(r, g, b) ==
  IF r < 0 \/ g < 0 \/ b < 0 THEN 0
  ELSE (299 * r + 587 * g + 114 * b + 500) \div 1000

\* The value the copy loop leaves at index i of the grayscale buffer. The
\* loop runs over whole x < viewport.width and y < viewport.height and writes
\* grayscale[(y + yOffset) * targetWidth + x], yOffset = targetHeight -
\* viewport.height; a write to an index that is no whole number does nothing,
\* and neither does the loop where it skips, so the pixel keeps 255.
renderedPixel(page, viewport, i, targetWidth, targetHeight) ==
  LET shiftUnits == (targetHeight * PxUnit - viewport.height) * targetWidth
      source == i - shiftUnits \div PxUnit        \* y * targetWidth + x
      x == source % targetWidth
      y == source \div targetWidth
      \* srcIndex = (y * viewport.width + x) * 4
      srcUnits == (y * viewport.width + x * PxUnit) * 4
      srcIndex == srcUnits \div PxUnit
  IN IF ~Whole(shiftUnits) \/ source < 0
          \/ y * PxUnit >= viewport.height \/ x * PxUnit >= viewport.width
     THEN 255
     ELSE IF ~Whole(srcUnits) THEN 0    \* image[1.5] is undefined
     ELSE grayOf(imageByte(page, viewport, srcIndex),
                 imageByte(page, viewport, srcIndex + 1),
                 imageByte(page, viewport, srcIndex + 2))

\* renderPage gone wrong: a page is returned on a canvas of its own size
renderPageOwnSize(doc, pageIndex, dpi, targetWidth, targetHeight) ==
  IF doc.isNull \/ pageIndex + 1 > numPages(doc)
  THEN [pixels |-> blankBuffer(targetWidth, targetHeight),
        widthPt |-> PxToPt(targetWidth, dpi),
        heightPt |-> PxToPt(targetHeight, dpi)]
  ELSE LET page == doc.pages[pageIndex + 1]
           viewport == viewportOf(page, dpi)
           ownWidth == CeilPx(viewport.width)
           ownHeight == CeilPx(viewport.height)
       IN [pixels |->
             [width |-> ownWidth, height |-> ownHeight,
              data |-> Stored([i \in Pixels(ownWidth, ownHeight) |->
                         renderedPixel(page, viewport, i, ownWidth, ownHeight)])],
           widthPt |-> page.widthPt,
           heightPt |-> page.heightPt]

\* renderPage(doc, pageIndex, scale, targetWidth, targetHeight), scale = dpi/72
renderPage(doc, pageIndex, dpi, targetWidth, targetHeight) ==
  IF doc.isNull \/ pageIndex + 1 > numPages(doc)
  THEN [pixels |-> blankBuffer(targetWidth, targetHeight),
        widthPt |-> PxToPt(targetWidth, dpi),
        heightPt |-> PxToPt(targetHeight, dpi)]
  ELSE LET page == doc.pages[pageIndex + 1]
           viewport == viewportOf(page, dpi)
       IN [pixels |->
             [width |-> targetWidth, height |-> targetHeight,
              data |-> Stored([i \in Pixels(targetWidth, targetHeight) |->
                         renderedPixel(page, viewport, i, targetWidth, targetHeight)])],
           widthPt |-> page.widthPt,
           heightPt |-> page.heightPt]

\* ------------------------------------------------------------------------
\* diff.ts, the diff worker: renderPage, normalizeRender, buildOverlays
\* ------------------------------------------------------------------------
\* renderPage(page, dpi) of the diff worker: the RGBA bytes of an
\* OffscreenCanvas of viewport.width by viewport.height (whole pixels, the
\* fraction dropped) that pdf.js has painted on its white background
diffRenderPage(page, dpi) ==
  LET viewport == viewportOf(page, dpi)
      width == TruncPx(viewport.width)
      height == TruncPx(viewport.height)
  IN [data |-> Stored([k \in 0 .. (width * height * 4 - 1) |->
                 imageByte(page, viewport, k)]),
      width |-> width, height |-> height]

\* padded = new Uint8ClampedArray(width * height * 4), all zero; then the
\* first copyWidth pixels of each of the first copyHeight rows are copied
normalizeRender(render, width, height) ==
  IF render.width = width /\ render.height = height THEN render
  ELSE LET copyWidth == Min2(render.width, width)
           copyHeight == Min2(render.height, height)
       IN [data |-> Stored([k \in 0 .. (width * height * 4 - 1) |->
                      LET y == k \div (width * 4)
                          within == k % (width * 4)
                      IN IF y < copyHeight /\ within < copyWidth * 4
                         THEN render.data[y * render.width * 4 + within]
                         ELSE 0]),
           width |-> width, height |-> height]

\* the pixels (byte offsets i, i + 4, ...) buildOverlays paints red or green
overlayKind(oldData, newData, threshold, i) ==
  LET diff == Abs(oldData[i] - newData[i]) + Abs(oldData[i + 1] - newData[i + 1])
                + Abs(oldData[i + 2] - newData[i + 2])
      \* presence = (r + g + b) * (a / 255), compared with the 255 cleared
      oldPresence == (oldData[i] + oldData[i + 1] + oldData[i + 2]) * oldData[i + 3]
      newPresence == (newData[i] + newData[i + 1] + newData[i + 2]) * newData[i + 3]
  IN IF diff <= threshold THEN "none"
     ELSE IF oldPresence > newPresence THEN "red" ELSE "green"

buildOverlays(oldData, newData, threshold) ==
  LET starts == {i \in DOMAIN oldData : i % 4 = 0}
      redAt == {i \in starts : overlayKind(oldData, newData, threshold, i) = "red"}
      greenAt == {i \in starts : overlayKind(oldData, newData, threshold, i) = "green"}
  IN [red |-> Stored([k \in DOMAIN oldData |->
                IF (k - (k % 4)) \in redAt
                THEN << 255, 0, 0, 180 >>[(k % 4) + 1] ELSE 0]),
      green |-> Stored([k \in DOMAIN oldData |->
                  IF (k - (k % 4)) \in greenAt
                  THEN << 0, 200, 0, 180 >>[(k % 4) + 1] ELSE 0]),
      redPixels |-> Cardinality(redAt),
      greenPixels |-> Cardinality(greenAt)]

\* ------------------------------------------------------------------------
\* compare.ts (helpers)
\* ------------------------------------------------------------------------
renderPageDimension(doc, pageIndex, dpi) ==
  IF doc.isNull \/ pageIndex + 1 > numPages(doc)
  THEN [widthPx |-> 0, heightPx |-> 0]
  ELSE LET viewport == viewportOf(doc.pages[pageIndex + 1], dpi)
       IN [widthPx |-> CeilPx(viewport.width), heightPx |-> CeilPx(viewport.height)]

\* ------------------------------------------------------------------------
\* overlayPdf.ts
\* ------------------------------------------------------------------------
\* "#RRGGBB" is kept as the number its six digits spell; the channels are
\* left in 255ths
hexToRgb(hex) ==
  [r |-> (hex \div 65536) % 256, g |-> (hex \div 256) % 256, b |-> hex % 256]

\* PDFDocument.load / PDFDocument.create: a pdf-lib document
libDocument(base64) == [pages |-> base64.pages]

\* importPage copying the first page of the source whatever the index
importPageFirstOnly(source, origin, index, fallbackWidth, fallbackHeight) ==
  IF index < Len(source.pages)
  THEN [origin |-> origin, sourceIndex |-> 0,
        widthPt |-> source.pages[1].widthPt,
        heightPt |-> source.pages[1].heightPt,
        ink |-> source.pages[1].ink,
        drawn |-> << >>]
  ELSE [origin |-> "blank", sourceIndex |-> index,
        widthPt |-> fallbackWidth, heightPt |-> fallbackHeight,
        ink |-> {}, drawn |-> << >>]

\* importPage: the page added to the target, copied from the source when the
\* source has page `index`, else blank with the fallback size
importPage(source, origin, index, fallbackWidth, fallbackHeight) ==
  IF index < Len(source.pages)
  THEN [origin |-> origin, sourceIndex |-> index,
        widthPt |-> source.pages[index + 1].widthPt,
        heightPt |-> source.pages[index + 1].heightPt,
        ink |-> source.pages[index + 1].ink,
        drawn |-> << >>]
  ELSE [origin |-> "blank", sourceIndex |-> index,
        widthPt |-> fallbackWidth, heightPt |-> fallbackHeight,
        ink |-> {}, drawn |-> << >>]

\* drawRegion: one rectangle and its label, in the given colour
drawRegion(page, region, config, color) ==
  [page EXCEPT !.drawn =
     Append(@, [x |-> region.bboxPdfUnits[1], y |-> region.bboxPdfUnits[2],
                width |-> region.bboxPdfUnits[3] - region.bboxPdfUnits[1],
                height |-> region.bboxPdfUnits[4] - region.bboxPdfUnits[2],
                borderWidth |-> config.strokeWidthPt,
                color |-> color, opacity |-> config.overlayAlpha,
                label |-> region.gridCell])]

\* the drawing loop without its "continue": every region on every page
RECURSIVE drawRegionsNoSkip(_, _, _, _, _, _)
drawRegionsNoSkip(page, regions, k, skip, config, color) ==
  IF k > Len(regions) THEN page
  ELSE drawRegionsNoSkip(drawRegion(page, regions[k], config, color),
                         regions, k + 1, skip, config, color)

\* "for (const region of page.regions) { if (region.type === skip) continue;
\*  drawRegion(...) }" from region k on
RECURSIVE drawRegions(_, _, _, _, _, _)
drawRegions(page, regions, k, skip, config, color) ==
  IF k > Len(regions) THEN page
  ELSE drawRegions(
         IF regions[k].type = skip THEN page
         ELSE drawRegion(page, regions[k], config, color),
         regions, k + 1, skip, config, color)

\* ------------------------------------------------------------------------
\* Inputs of the pure-function specification SpecDiff
\* ------------------------------------------------------------------------
\* Ink rectangles (inclusive pixel corners) a test page may carry on its white
\* background; ink is the intensity painted.
Strokes ==
  << [x0 |-> 2, y0 |-> 1, x1 |-> 4,  y1 |-> 3, ink |-> 0],     \* a 3x3 square
     [x0 |-> 8, y0 |-> 1, x1 |-> 10, y1 |-> 9, ink |-> 0],     \* a column
     [x0 |-> 1, y0 |-> 7, x1 |-> 10, y1 |-> 9, ink |-> 0],     \* a bar below
     [x0 |-> 5, y0 |-> 4, x1 |-> 7,  y1 |-> 6, ink |-> 0],     \* corner to corner with the square
     [x0 |-> 1, y0 |-> 1, x1 |-> 5,  y1 |-> 5, ink |-> 250],   \* a faint patch
     [x0 |-> 2, y0 |-> 1, x1 |-> 4,  y1 |-> 3, ink |-> 100] >> \* the square, in grey

StrokeIds == 1 .. Len(Strokes)

\* which page(s) each chosen stroke is painted on
Placements ==
  UNION { [S -> {"old", "new", "both"}] :
            S \in {T \in SUBSET StrokeIds : Cardinality(T) <= MaxStrokes} }

Darkest(S) == CHOOSE v \in S : \A u \in S : v <= u

Paint(width, height, ids) ==
  [width |-> width, height |-> height,
   data |-> Stored([i \in Pixels(width, height) |->
               LET x == i % width
                   y == i \div width
                   over == {Strokes[k].ink : k \in
                              {n \in ids : /\ Strokes[n].x0 <= x /\ x <= Strokes[n].x1
                                           /\ Strokes[n].y0 <= y /\ y <= Strokes[n].y1}}
               IN IF over = {} THEN 255 ELSE Darkest(over)])]

Thresholds == {0, 30}
MinAreas == {1, 10}
DpiChoices == {72, 600}

\* ------------------------------------------------------------------------
\* State
\* ------------------------------------------------------------------------
VARIABLES
  bufOld,       \* SpecDiff: the old PixelBuffer handed to computeDiff
  bufNew,       \* SpecDiff: the new PixelBuffer
  inThreshold,  \* SpecDiff: threshold argument
  inMinArea,    \* SpecDiff: minArea argument
  dStage,       \* SpecDiff: "input", "diffed" or "classified"
  dResult,      \* SpecDiff: what computeDiff returned
  dCtx,         \* SpecDiff: the RegionContext handed to classifyRegions
  dRegions,     \* SpecDiff: what classifyRegions returned
  inMessage,    \* the message the worker is sent: [type, payload]
  pc,           \* where the run stands
  oldDoc,       \* comparePdfs: oldDoc
  newDoc,       \* comparePdfs: newDoc
  loopIndex,    \* the page index of the loop that is running
  oldDimensions,\* comparePdfs: oldDimensions of the current page
  newDimensions,\* comparePdfs: newDimensions of the current page
  oldRender,    \* comparePdfs: what renderPage returned for the old page
  pages,        \* comparePdfs: pages
  ovOldDoc,     \* buildOverlayPdf: oldDoc
  ovNewDoc,     \* buildOverlayPdf: newDoc
  ovResult,     \* buildOverlayPdf: the pages of the result document
  result,       \* what comparePdfs resolved with
  posted,       \* the messages the worker has posted, oldest first
  fault,        \* history: the library call that failed, if one did
  morph,        \* SpecMorph: a mask, and what close-then-open made of it
  swapped,      \* SpecSwap: what the pipeline gave with old and new swapped
  calc,         \* SpecCoords: one call of a function of coords.ts or regions.ts
  engine,       \* SpecEngine: the fields of the engine control and its worker
  queued        \* SpecQueued: the fields of a queued control and its worker

diffVars == << bufOld, bufNew, inThreshold, inMinArea, dStage, dResult, dCtx, dRegions >>
runVars == << inMessage, pc, oldDoc, newDoc, loopIndex, oldDimensions, newDimensions,
             oldRender, pages, ovOldDoc, ovNewDoc, ovResult, result, posted, fault >>
ctlVars == << engine, queued >>
calcVars == << morph, swapped, calc, ctlVars >>
vars == << diffVars, runVars, calcVars >>

NoCtx == [pageIndex |-> 0, gridRows |-> 1, gridCols |-> 1, pageWidthPt |-> 0,
          pageHeightPt |-> 0, dpi |-> 72, canvasHeightPx |-> 0]
NoDiff == [error |-> "", regions |-> << >>, mask |-> << >>]

\* the configuration of the run: values of the ranges the control allows
Config ==
  [dpi |-> 72, gridRows |-> 2, gridCols |-> 2, diffThreshold |-> 18,
   minRegionArea |-> 1, strokeWidthPt |-> 80, overlayAlpha |-> 25,
   colorRemoved |-> 16711680,    \* "#FF0000"
   colorAdded |-> 43520]         \* "#00AA00"

Inputs ==
  {EmptyInput, GarbageInput} \cup {PdfInput(q) : q \in SeqsUpTo(PageKinds, MaxPages)}

NoDimensions == [widthPx |-> 0, heightPx |-> 0]
NoRender == [pixels |-> blankBuffer(0, 0), widthPt |-> 0, heightPt |-> 0]
NoFault == [stage |-> "none", page |-> 0]
NullPdf == [isNull |-> TRUE, pages |-> << >>]
NullJson == [isNull |-> TRUE, regions |-> << >>]
NoResult ==
  [outputPdfBase64 |-> NullPdf, diffSummaryJson |-> NullJson, diffCount |-> 0,
   status |-> [head |-> "", message |-> ""]]
NoMessage == [type |-> "none", oldPdfBase64 |-> EmptyInput, newPdfBase64 |-> EmptyInput]

\* the variables of the run, at rest
RunIdle ==
  /\ inMessage = NoMessage
  /\ pc = "idle"
  /\ oldDoc = NullDoc /\ newDoc = NullDoc
  /\ loopIndex = 0
  /\ oldDimensions = NoDimensions /\ newDimensions = NoDimensions
  /\ oldRender = NoRender
  /\ pages = << >>
  /\ ovOldDoc = libDocument(EmptyInput) /\ ovNewDoc = libDocument(EmptyInput)
  /\ ovResult = << >>
  /\ result = NoResult
  /\ posted = << >>
  /\ fault = NoFault

\* the variables of the specifications of single functions, at rest
NoMorph == [stage |-> "idle", width |-> 0, height |-> 0,
            mask |-> << >>, once |-> << >>, twice |-> << >>]
NoSwapped == [stage |-> "idle", diff |-> NoDiff, regions |-> << >>]
NoCalc == [op |-> "idle", args |-> << >>, out |-> << >>]
NoEngine == [phase |-> "idle"]
NoQueued == [phase |-> "idle"]
CtlIdle ==
  /\ engine = NoEngine
  /\ queued = NoQueued
CalcIdle ==
  /\ morph = NoMorph
  /\ swapped = NoSwapped
  /\ calc = NoCalc
  /\ CtlIdle

\* the variables of SpecDiff, at rest
DiffIdle ==
  /\ bufOld = blankBuffer(0, 0) /\ bufNew = blankBuffer(0, 0)
  /\ inThreshold = 0 /\ inMinArea = 0
  /\ dStage = "idle"
  /\ dResult = NoDiff
  /\ dCtx = NoCtx
  /\ dRegions = << >>

InitDiff ==
  /\ RunIdle
  /\ CalcIdle
  /\ \E pl \in Placements :
       /\ bufOld = Paint(CanvasW, CanvasH, {k \in DOMAIN pl : pl[k] \in {"old", "both"}})
       /\ bufNew = Paint(CanvasW, CanvasH, {k \in DOMAIN pl : pl[k] \in {"new", "both"}})
  /\ inThreshold \in Thresholds
  /\ inMinArea \in MinAreas
  /\ dStage = "input"
  /\ dResult = NoDiff
  /\ dCtx = NoCtx
  /\ dRegions = << >>

\* const diff = computeDiff(oldPixels, newPixels, threshold, minArea)
CallComputeDiff ==
  /\ dStage = "input"
  /\ dResult' = computeDiff(bufOld, bufNew, inThreshold, inMinArea)
  /\ dStage' = "diffed"
  /\ UNCHANGED << bufOld, bufNew, inThreshold, inMinArea, dCtx, dRegions >>
  /\ UNCHANGED << runVars, calcVars >>

\* const regions = classifyRegions(diff.regions, {...})
CallClassifyRegions ==
  /\ dStage = "diffed"
  /\ dResult.error = ""
  /\ \E dpi \in DpiChoices :
       dCtx' = [pageIndex |-> 0, gridRows |-> 2, gridCols |-> 2,
                pageWidthPt |-> bufOld.width * (7200 \div dpi),
                pageHeightPt |-> bufOld.height * (7200 \div dpi),
                dpi |-> dpi, canvasHeightPx |-> bufOld.height]
  /\ dRegions' = classifyRegions(dResult.regions, dCtx')
  /\ dStage' = "classified"
  /\ UNCHANGED << bufOld, bufNew, inThreshold, inMinArea, dResult >>
  /\ UNCHANGED << runVars, calcVars >>

NextDiff == CallComputeDiff \/ CallClassifyRegions

SpecDiff == InitDiff /\ [][NextDiff]_vars

\* ------------------------------------------------------------------------
\* SpecSizes: computeDiff on buffers of equal and of different dimensions
\* ------------------------------------------------------------------------
BufferSizes == {CanvasW - 1, CanvasW} \X {CanvasH - 1, CanvasH}

\* no stroke, or one stroke on either page or on both
OneStrokePlacements ==
  { << >> } \cup UNION { [{k} -> {"old", "new", "both"}] : k \in StrokeIds }

InitSizes ==
  /\ RunIdle
  /\ CalcIdle
  /\ \E pl \in OneStrokePlacements, sizeOld \in BufferSizes, sizeNew \in BufferSizes :
       /\ bufOld = Paint(sizeOld[1], sizeOld[2],
                         {k \in DOMAIN pl : pl[k] \in {"old", "both"}})
       /\ bufNew = Paint(sizeNew[1], sizeNew[2],
                         {k \in DOMAIN pl : pl[k] \in {"new", "both"}})
  /\ inThreshold \in Thresholds
  /\ inMinArea \in MinAreas
  /\ dStage = "input"
  /\ dResult = NoDiff
  /\ dCtx = NoCtx
  /\ dRegions = << >>

SpecSizes == InitSizes /\ [][NextDiff]_vars

\* ------------------------------------------------------------------------
\* SpecScene: computeDiff and classifyRegions on a page with one square and
\* the page with the square moved
\* ------------------------------------------------------------------------
\* a white raster with ink on the pixels x0 .. x1 by y0 .. y1
PaintSquare(width, height, x0, y0, x1, y1, ink) ==
  [width |-> width, height |-> height,
   data |-> Stored([i \in Pixels(width, height) |->
               IF /\ x0 <= i % width /\ i % width <= x1
                  /\ y0 <= i \div width /\ i \div width <= y1
               THEN ink ELSE 255])]

\* the far corner of the square (49: the corner 50 left out, 50: included)
\* and how far the new page has it moved right and down
SquareEnds == {49, 50}
SquareShifts == {0, 2, 5} \X {0, 5}

InitScene ==
  /\ RunIdle
  /\ CalcIdle
  /\ \E end \in SquareEnds, shift \in SquareShifts :
       /\ bufOld = PaintSquare(SceneSide, SceneSide, 10, 10, end, end, 0)
       /\ bufNew = PaintSquare(SceneSide, SceneSide, 10 + shift[1], 10 + shift[2],
                               end + shift[1], end + shift[2], 0)
  /\ inThreshold \in Thresholds
  /\ inMinArea \in MinAreas
  /\ dStage = "input"
  /\ dResult = NoDiff
  /\ dCtx = NoCtx
  /\ dRegions = << >>

SpecScene == InitScene /\ [][NextDiff]_vars

\* ------------------------------------------------------------------------
\* SpecMorph: morphClose and morphOpen on masks of one grid
\* ------------------------------------------------------------------------
MorphW == MorphSide
MorphH == MorphSide - 1

\* the pixels of the rectangle with inclusive corners (x0, y0), (x1, y1)
RectPixels(x0, y0, x1, y1, width) ==
  {y * width + x : x \in x0 .. x1, y \in y0 .. y1}

\* at most two pixels
Specks ==
  {{}} \cup {{i, j} : i \in Pixels(MorphW, MorphH), j \in Pixels(MorphW, MorphH)}

Rects ==
  {RectPixels(x0, y0, x1, y1, MorphW) :
     x0 \in 0 .. MorphW - 1, x1 \in 0 .. MorphW - 1,
     y0 \in 0 .. MorphH - 1, y1 \in 0 .. MorphH - 1}

\* the sets of pixels that are on: a few specks, all but a few specks, a
\* rectangle, a rectangle with one pixel missing
MorphInputs ==
  Specks \cup {Pixels(MorphW, MorphH) \ S : S \in Specks}
         \cup Rects \cup UNION { {R \ {i} : i \in R} : R \in Rects }

MaskOf(on, width, height) ==
  Stored([i \in Pixels(width, height) |-> IF i \in on THEN 1 ELSE 0])

InitMorph ==
  /\ DiffIdle
  /\ RunIdle
  /\ swapped = NoSwapped
  /\ calc = NoCalc
  /\ CtlIdle
  /\ \E on \in MorphInputs :
       morph = [stage |-> "input", width |-> MorphW, height |-> MorphH,
                mask |-> MaskOf(on, MorphW, MorphH), once |-> << >>, twice |-> << >>]

\* closed = morphClose(mask), opened = morphOpen(closed), as in computeDiff
CloseThenOpen ==
  /\ morph.stage = "input"
  /\ UNCHANGED << swapped, calc, ctlVars >>
  /\ morph' = [morph EXCEPT
       !.stage = "once",
       !.once = morphOpen(morphClose(morph.mask, morph.width, morph.height),
                          morph.width, morph.height)]
  /\ UNCHANGED << diffVars, runVars >>

\* the same two calls on the mask they gave
CloseThenOpenAgain ==
  /\ morph.stage = "once"
  /\ UNCHANGED << swapped, calc, ctlVars >>
  /\ morph' = [morph EXCEPT
       !.stage = "twice",
       !.twice = morphOpen(morphClose(morph.once, morph.width, morph.height),
                           morph.width, morph.height)]
  /\ UNCHANGED << diffVars, runVars >>

NextMorph == CloseThenOpen \/ CloseThenOpenAgain

SpecMorph == InitMorph /\ [][NextMorph]_vars

\* ------------------------------------------------------------------------
\* SpecSwap: the pipeline on (old, new) and on (new, old)
\* ------------------------------------------------------------------------
InitSwap ==
  /\ InitDiff
  /\ inMinArea = 1

\* computeDiff(newPixels, oldPixels, threshold, minArea): the buffers swapped
CallSwappedDiff ==
  /\ dStage = "diffed"
  /\ dResult.error = ""
  /\ swapped.stage = "idle"
  /\ swapped' = [stage |-> "diffed",
                 diff |-> computeDiff(bufNew, bufOld, inThreshold, inMinArea),
                 regions |-> << >>]
  /\ UNCHANGED << diffVars, runVars, morph, calc, ctlVars >>

\* classifyRegions on the regions of both calls, with one RegionContext
CallClassifyBoth ==
  /\ dStage = "diffed"
  /\ swapped.stage = "diffed"
  /\ swapped.diff.error = ""
  /\ \E dpi \in DpiChoices :
       dCtx' = [pageIndex |-> 0, gridRows |-> 2, gridCols |-> 2,
                pageWidthPt |-> bufOld.width * (7200 \div dpi),
                pageHeightPt |-> bufOld.height * (7200 \div dpi),
                dpi |-> dpi, canvasHeightPx |-> bufOld.height]
  /\ dRegions' = classifyRegions(dResult.regions, dCtx')
  /\ swapped' = [swapped EXCEPT !.stage = "classified",
                                !.regions = classifyRegions(swapped.diff.regions, dCtx')]
  /\ dStage' = "classified"
  /\ UNCHANGED << bufOld, bufNew, inThreshold, inMinArea, dResult >>
  /\ UNCHANGED << runVars, morph, calc, ctlVars >>

NextSwap == CallComputeDiff \/ CallSwappedDiff \/ CallClassifyBoth

SpecSwap == InitSwap /\ [][NextSwap]_vars

\* ------------------------------------------------------------------------
\* SpecCoords: pixelBBoxToPdf, classifyRegions and gridLabel, one call each
\* ------------------------------------------------------------------------
MIN_DPI == 72
MAX_DPI == 600
CoordW == CoordSide
CoordH == CoordSide

\* a PixelRegion with the given box; the sums make it ink of the new page
BoxRegion(x0, y0, x1, y1) ==
  LET area == Max2(1, (x1 - x0) * (y1 - y0))
  IN [minX |-> x0, minY |-> y0, maxX |-> x1, maxY |-> y1,
      area |-> area, sumOld |-> 255 * area, sumNew |-> 0]

\* boxes with minX <= maxX and minY <= maxY on a CoordW x CoordH raster
PixelBoxes ==
  UNION { { BoxRegion(x0, y0, x1, y1) : x1 \in x0 .. CoordW, y1 \in y0 .. CoordH } :
            x0 \in 0 .. CoordW, y0 \in 0 .. CoordH }

\* the canvas is as high as the raster or one row short of it, so that some
\* boxes reach below the canvas
CanvasHeights == {CoordH - 1, CoordH}

\* bounding boxes and page sizes in hundredths of a point
DocPoints == {0 - 100, 0, 50, 200, 300, 450}
DocBoxes ==
  UNION { { << x0, y0, x1, y1 >> :
              x1 \in {v \in DocPoints : v >= x0}, y1 \in {v \in DocPoints : v >= y0} } :
            x0 \in DocPoints, y0 \in DocPoints }
PageSizesPt == { << 200, 300 >>, << 300, 200 >> }

InitCoords ==
  /\ DiffIdle
  /\ RunIdle
  /\ morph = NoMorph
  /\ swapped = NoSwapped
  /\ CtlIdle
  /\ \/ \E region \in PixelBoxes, dpi \in MIN_DPI .. MAX_DPI,
          canvasHeightPx \in CanvasHeights :
          calc = [op |-> "regionInput",
                  args |-> [region |-> region, dpi |-> dpi,
                            canvasHeightPx |-> canvasHeightPx],
                  out |-> << >>]
     \/ \E bbox \in DocBoxes, size \in PageSizesPt,
          cols \in 1 .. MaxGrid, rows \in 1 .. MaxGrid :
          calc = [op |-> "gridInput",
                  args |-> [bbox |-> bbox, widthPt |-> size[1], heightPt |-> size[2],
                            cols |-> cols, rows |-> rows],
                  out |-> << >>]

CallPixelBBoxToPdf ==
  /\ calc.op = "regionInput"
  /\ LET transform == [dpi |-> calc.args.dpi,
                       canvasHeightPx |-> calc.args.canvasHeightPx]
     IN calc' = [op |-> "pixelBBoxToPdf",
                 args |-> [region |-> calc.args.region, transform |-> transform],
                 out |-> pixelBBoxToPdf(calc.args.region, transform)]
  /\ UNCHANGED << diffVars, runVars, morph, swapped, ctlVars >>

\* classifyRegions on a list of one region
CallClassifyOne ==
  /\ calc.op = "regionInput"
  /\ LET ctx == [pageIndex |-> 0, gridRows |-> 2, gridCols |-> 2,
                 pageWidthPt |-> (CoordW * 7200) \div calc.args.dpi,
                 pageHeightPt |-> (CoordH * 7200) \div calc.args.dpi,
                 dpi |-> calc.args.dpi,
                 canvasHeightPx |-> calc.args.canvasHeightPx]
     IN calc' = [op |-> "classifyRegions",
                 args |-> [regions |-> << calc.args.region >>, ctx |-> ctx],
                 out |-> classifyRegions(<< calc.args.region >>, ctx)]
  /\ UNCHANGED << diffVars, runVars, morph, swapped, ctlVars >>

CallGridLabel ==
  /\ calc.op = "gridInput"
  /\ calc' = [op |-> "gridLabel",
              args |-> calc.args,
              out |-> gridLabel(calc.args.bbox, calc.args.widthPt, calc.args.heightPt,
                                calc.args.cols, calc.args.rows)]
  /\ UNCHANGED << diffVars, runVars, morph, swapped, ctlVars >>

NextCoords == CallPixelBBoxToPdf \/ CallClassifyOne \/ CallGridLabel

SpecCoords == InitCoords /\ [][NextCoords]_vars

\* ------------------------------------------------------------------------
\* SpecCanvas: one pair of pages of any two sizes put on a shared canvas, by
\* comparePdfs (renderPage of renderPdf.ts) and by the diff worker
\* ------------------------------------------------------------------------
PageTall ==
  [widthPt |-> 400, heightPt |-> 700, ink |-> {<< 0, 0 >>, << 3, 6 >>}]
CanvasPages == PageKinds \cup {PageTall}
\* resolutions at which the scale dpi / 72 and every viewport length of
\* these pages are whole or half pixels
CanvasDpis == {72, 144, 288}

InitCanvas ==
  /\ DiffIdle
  /\ RunIdle
  /\ morph = NoMorph
  /\ swapped = NoSwapped
  /\ CtlIdle
  /\ \E oldPage \in CanvasPages, newPage \in CanvasPages,
        dpi \in CanvasDpis, threshold \in Thresholds :
       calc = [op |-> "pageInput",
               args |-> [oldPage |-> oldPage, newPage |-> newPage,
                         dpi |-> dpi, threshold |-> threshold],
               out |-> << >>]

\* comparePdfs for one pair: renderPageDimension twice, canvasWidth,
\* canvasHeight, renderPage twice
RenderPairOnCanvas ==
  /\ calc.op = "pageInput"
  /\ LET old == loadPdf(PdfInput(<< calc.args.oldPage >>))
         new == loadPdf(PdfInput(<< calc.args.newPage >>))
         dimOld == renderPageDimension(old, 0, calc.args.dpi)
         dimNew == renderPageDimension(new, 0, calc.args.dpi)
         width == Max2(1, Max2(dimOld.widthPx, dimNew.widthPx))
         height == Max2(1, Max2(dimOld.heightPx, dimNew.heightPx))
     IN calc' = [op |-> "renderPage",
                 args |-> calc.args,
                 out |-> [canvasWidth |-> width, canvasHeight |-> height,
                          oldPixels |-> renderPage(old, 0, calc.args.dpi, width, height).pixels,
                          newPixels |-> renderPage(new, 0, calc.args.dpi, width, height).pixels]]
  /\ UNCHANGED << diffVars, runVars, morph, swapped, ctlVars >>

\* the diff worker for one pair: renderPage twice, targetWidth, targetHeight,
\* normalizeRender twice, buildOverlays
NormalizePairInWorker ==
  /\ calc.op = "pageInput"
  /\ LET oldRgba == diffRenderPage(calc.args.oldPage, calc.args.dpi)
         newRgba == diffRenderPage(calc.args.newPage, calc.args.dpi)
         targetWidth == Max2(oldRgba.width, newRgba.width)
         targetHeight == Max2(oldRgba.height, newRgba.height)
         normalizedOld == normalizeRender(oldRgba, targetWidth, targetHeight)
         normalizedNew == normalizeRender(newRgba, targetWidth, targetHeight)
         overlays == buildOverlays(normalizedOld.data, normalizedNew.data,
                                   calc.args.threshold)
     IN calc' = [op |-> "normalizeRender",
                 args |-> calc.args,
                 out |-> [targetWidth |-> targetWidth, targetHeight |-> targetHeight,
                          oldRender |-> [width |-> oldRgba.width,
                                         height |-> oldRgba.height],
                          newRender |-> [width |-> newRgba.width,
                                         height |-> newRgba.height],
                          normalizedOld |-> normalizedOld,
                          normalizedNew |-> normalizedNew,
                          red |-> overlays.red,
                          green |-> overlays.green,
                          redPixels |-> overlays.redPixels,
                          greenPixels |-> overlays.greenPixels]]
  /\ UNCHANGED << diffVars, runVars, morph, swapped, ctlVars >>

NextCanvas == RenderPairOnCanvas \/ NormalizePairInWorker

SpecCanvas == InitCanvas /\ [][NextCanvas]_vars

\* ------------------------------------------------------------------------
\* compareWorker.ts, compare.ts, overlayPdf.ts: one run
\* ------------------------------------------------------------------------
cfgOld == inMessage.oldPdfBase64
cfgNew == inMessage.newPdfBase64

Progress(text, page, of) == [type |-> "progress", text |-> text, page |-> page, of |-> of]

\* Math.max(oldDoc?.pageCount ?? 0, newDoc?.pageCount ?? 0)
pageCountOf(docA, docB) == Max2(numPages(docA), numPages(docB))
pageCount == pageCountOf(oldDoc, newDoc)

canvasWidth == Max2(1, Max2(oldDimensions.widthPx, newDimensions.widthPx))
canvasHeight == Max2(1, Max2(oldDimensions.heightPx, newDimensions.heightPx))

hasPage(doc, k) == ~doc.isNull /\ k + 1 <= numPages(doc)

RECURSIVE regionsSoFar(_, _)
regionsSoFar(pageList, k) ==
  IF k > Len(pageList) THEN << >>
  ELSE pageList[k].regions \o regionsSoFar(pageList, k + 1)

\* a catch block that hands back what the pages before the failure gave
ErrorResultPartial(message) ==
  [outputPdfBase64 |-> NullPdf,
   diffSummaryJson |-> [isNull |-> FALSE, regions |-> regionsSoFar(pages, 1)],
   diffCount |-> Len(regionsSoFar(pages, 1)),
   status |-> [head |-> "Error: ", message |-> message]]

\* the catch block of comparePdfs
ErrorResult(message) ==
  [outputPdfBase64 |-> NullPdf, diffSummaryJson |-> NullJson, diffCount |-> 0,
   status |-> [head |-> "Error: ", message |-> message]]

\* comparePdfs without its catch block: the promise rejects, handleCompare
\* stops at its await and posts nothing
ThrowUncaught(message, notes) ==
  /\ posted' = posted \o notes
  /\ pc' = "done"
  /\ UNCHANGED << inMessage, oldDoc, newDoc, loopIndex, oldDimensions, newDimensions,
                  oldRender, pages, ovOldDoc, ovNewDoc, ovResult, result >>

\* an exception reaches the catch block; `finally` releases the documents
Throw(message, notes) ==
  /\ result' = ErrorResult(message)
  /\ posted' = posted \o notes
  /\ pc' = "returned"
  /\ UNCHANGED << inMessage, oldDoc, newDoc, loopIndex, oldDimensions, newDimensions,
                  oldRender, pages, ovOldDoc, ovNewDoc, ovResult >>

\* a library call fails at this stage
Fails(stage, message) ==
  /\ fault' = [stage |-> stage, page |-> loopIndex]
  /\ Throw(message, << >>)

InitRun ==
  /\ DiffIdle
  /\ CalcIdle
  /\ \E type \in {"compare", "none"}, a \in Inputs, b \in Inputs :
       inMessage = IF type = "none" THEN NoMessage
                   ELSE [type |-> type, oldPdfBase64 |-> a, newPdfBase64 |-> b]
  /\ pc = "queued"
  /\ oldDoc = NullDoc /\ newDoc = NullDoc
  /\ loopIndex = 0
  /\ oldDimensions = NoDimensions /\ newDimensions = NoDimensions
  /\ oldRender = NoRender
  /\ pages = << >>
  /\ ovOldDoc = libDocument(EmptyInput) /\ ovNewDoc = libDocument(EmptyInput)
  /\ ovResult = << >>
  /\ result = NoResult
  /\ posted = << >>
  /\ fault = NoFault

\* onmessage with no data: the handler returns
WorkerIgnoresMessage ==
  /\ pc = "queued"
  /\ inMessage.type = "none"
  /\ pc' = "ignored"
  /\ UNCHANGED << inMessage, oldDoc, newDoc, loopIndex, oldDimensions, newDimensions,
                  oldRender, pages, ovOldDoc, ovNewDoc, ovResult, result, posted, fault >>
  /\ UNCHANGED << diffVars, calcVars >>

\* onmessage with a compare request: handleCompare calls comparePdfs, which
\* reports "Loading PDFs..." and awaits the two loadPdf calls
WorkerStartsCompare ==
  /\ pc = "queued"
  /\ inMessage.type = "compare"
  /\ posted' = Append(posted, Progress("Loading PDFs...", 0, 0))
  /\ pc' = "loading"
  /\ UNCHANGED << inMessage, oldDoc, newDoc, loopIndex, oldDimensions, newDimensions,
                  oldRender, pages, ovOldDoc, ovNewDoc, ovResult, result, fault >>
  /\ UNCHANGED << diffVars, calcVars >>

\* a loop that announces the last page first
LoopFromLastPage(k, count) ==
  IF k < count
  THEN /\ pc' = "dimOld"
       /\ posted' = Append(posted, Progress("Rendering page", count - k, count))
  ELSE /\ pc' = "ovLoadOld"
       /\ posted' = Append(posted, Progress("Building overlay PDF...", 0, 0))

\* where the loop over the pages goes next, from index k, and what it reports
LoopFrom(k, count) ==
  IF k < count
  THEN /\ pc' = "dimOld"
       /\ posted' = Append(posted, Progress("Rendering page", k + 1, count))
  ELSE /\ pc' = "ovLoadOld"
       /\ posted' = Append(posted, Progress("Building overlay PDF...", 0, 0))

\* both loadPdf calls resolve
LoadResolves ==
  /\ pc = "loading"
  /\ cfgOld.kind # "garbage" /\ cfgNew.kind # "garbage"
  /\ oldDoc' = loadPdf(cfgOld)
  /\ newDoc' = loadPdf(cfgNew)
  /\ loopIndex' = 0
  /\ LoopFrom(0, pageCountOf(loadPdf(cfgOld), loadPdf(cfgNew)))
  /\ UNCHANGED << inMessage, oldDimensions, newDimensions, oldRender, pages,
                  ovOldDoc, ovNewDoc, ovResult, result, fault >>
  /\ UNCHANGED << diffVars, calcVars >>

\* loadPdf swallowing the rejection: the unreadable input counts as absent
LoadRejectsSwallowed ==
  /\ pc = "loading"
  /\ cfgOld.kind = "garbage" \/ cfgNew.kind = "garbage"
  /\ oldDoc' = IF cfgOld.kind = "garbage" THEN NullDoc ELSE loadPdf(cfgOld)
  /\ newDoc' = IF cfgNew.kind = "garbage" THEN NullDoc ELSE loadPdf(cfgNew)
  /\ loopIndex' = 0
  /\ LoopFrom(0, Max2(IF cfgOld.kind = "garbage" THEN 0 ELSE Len(cfgOld.pages),
                      IF cfgNew.kind = "garbage" THEN 0 ELSE Len(cfgNew.pages)))
  /\ UNCHANGED << inMessage, oldDimensions, newDimensions, oldRender, pages,
                  ovOldDoc, ovNewDoc, ovResult, result, fault >>
  /\ UNCHANGED << diffVars, calcVars >>

\* getDocument rejects bytes that are no PDF
LoadRejects ==
  /\ pc = "loading"
  /\ cfgOld.kind = "garbage" \/ cfgNew.kind = "garbage"
  /\ Throw("Invalid PDF structure.", << >>)
  /\ UNCHANGED fault
  /\ UNCHANGED << diffVars, calcVars >>

\* getDocument fails on a readable document (the library call fails)
LoadFails ==
  /\ pc = "loading"
  /\ cfgOld.kind = "pdf" \/ cfgNew.kind = "pdf"
  /\ Fails("load", "Loading failed.")
  /\ UNCHANGED << diffVars, calcVars >>

\* await renderPageDimension(oldDoc?.doc, index, scale)
DimensionOld ==
  /\ pc = "dimOld"
  /\ oldDimensions' = renderPageDimension(oldDoc, loopIndex, Config.dpi)
  /\ pc' = "dimNew"
  /\ UNCHANGED << inMessage, oldDoc, newDoc, loopIndex, newDimensions, oldRender, pages,
                  ovOldDoc, ovNewDoc, ovResult, result, posted, fault >>
  /\ UNCHANGED << diffVars, calcVars >>

DimensionOldFails ==
  /\ pc = "dimOld"
  /\ hasPage(oldDoc, loopIndex)
  /\ Fails("getPage", "Invalid page request.")
  /\ UNCHANGED << diffVars, calcVars >>

\* await renderPageDimension(newDoc?.doc, index, scale)
DimensionNew ==
  /\ pc = "dimNew"
  /\ newDimensions' = renderPageDimension(newDoc, loopIndex, Config.dpi)
  /\ pc' = "renderOld"
  /\ UNCHANGED << inMessage, oldDoc, newDoc, loopIndex, oldDimensions, oldRender, pages,
                  ovOldDoc, ovNewDoc, ovResult, result, posted, fault >>
  /\ UNCHANGED << diffVars, calcVars >>

DimensionNewFails ==
  /\ pc = "dimNew"
  /\ hasPage(newDoc, loopIndex)
  /\ Fails("getPage", "Invalid page request.")
  /\ UNCHANGED << diffVars, calcVars >>

\* await renderPage(oldDoc?.doc ?? null, index, scale, canvasWidth, canvasHeight)
RenderOld ==
  /\ pc = "renderOld"
  /\ oldRender' = renderPage(oldDoc, loopIndex, Config.dpi, canvasWidth, canvasHeight)
  /\ pc' = "renderNew"
  /\ UNCHANGED << inMessage, oldDoc, newDoc, loopIndex, oldDimensions, newDimensions, pages,
                  ovOldDoc, ovNewDoc, ovResult, result, posted, fault >>
  /\ UNCHANGED << diffVars, calcVars >>

RenderOldFails ==
  /\ pc = "renderOld"
  /\ hasPage(oldDoc, loopIndex)
  /\ Fails("render", "Unable to obtain canvas context for rendering.")
  /\ UNCHANGED << diffVars, calcVars >>

\* the PageCompareResult pushed for the current page
pageResult(newRender, regions) ==
  [pageIndex |-> loopIndex,
   canvasWidthPx |-> canvasWidth, canvasHeightPx |-> canvasHeight,
   pageWidthPt |-> Max2(oldRender.widthPt, newRender.widthPt),
   pageHeightPt |-> Max2(oldRender.heightPt, newRender.heightPt),
   dpi |-> Config.dpi,
   oldPixels |-> oldRender.pixels, newPixels |-> newRender.pixels,
   regions |-> regions]

\* await renderPage(newDoc ...) resolves; then, with no await in between:
\* "Diffing page", computeDiff, classifyRegions, pages.push, and the loop's
\* next round or, after the last page, "Building overlay PDF..." and the
\* call of buildOverlayPdf
RenderNewAndDiff ==
  /\ pc = "renderNew"
  /\ LET newRender == renderPage(newDoc, loopIndex, Config.dpi, canvasWidth, canvasHeight)
         diffing == Progress("Diffing page", loopIndex + 1, pageCount)
         diff == computeDiff(oldRender.pixels, newRender.pixels,
                             Config.diffThreshold, Config.minRegionArea)
         regions == classifyRegions(diff.regions,
                      [pageIndex |-> loopIndex,
                       gridRows |-> Config.gridRows, gridCols |-> Config.gridCols,
                       pageWidthPt |-> Max2(oldRender.widthPt, newRender.widthPt),
                       pageHeightPt |-> Max2(oldRender.heightPt, newRender.heightPt),
                       dpi |-> Config.dpi, canvasHeightPx |-> canvasHeight])
     IN IF diff.error # ""
        THEN Throw(diff.error, << diffing >>)
        ELSE /\ pages' = Append(pages, pageResult(newRender, regions))
             /\ loopIndex' = IF loopIndex + 1 < pageCount THEN loopIndex + 1 ELSE 0
             /\ oldDimensions' = NoDimensions
             /\ newDimensions' = NoDimensions
             /\ oldRender' = NoRender
             /\ IF loopIndex + 1 < pageCount
                THEN /\ pc' = "dimOld"
                     /\ posted' = posted \o << diffing,
                                     Progress("Rendering page", loopIndex + 2, pageCount) >>
                ELSE /\ pc' = "ovLoadOld"
                     /\ posted' = posted \o << diffing,
                                     Progress("Building overlay PDF...", 0, 0) >>
             /\ UNCHANGED << inMessage, oldDoc, newDoc, ovOldDoc, ovNewDoc, ovResult, result >>
  /\ UNCHANGED fault
  /\ UNCHANGED << diffVars, calcVars >>

RenderNewFails ==
  /\ pc = "renderNew"
  /\ hasPage(newDoc, loopIndex)
  /\ Fails("render", "Unable to obtain canvas context for rendering.")
  /\ UNCHANGED << diffVars, calcVars >>

\* new Uint8Array(width * height) in computeDiff cannot be allocated
DiffFails ==
  /\ pc = "renderNew"
  /\ fault' = [stage |-> "diff", page |-> loopIndex]
  /\ Throw("Array buffer allocation failed",
           << Progress("Diffing page", loopIndex + 1, pageCount) >>)
  /\ UNCHANGED << diffVars, calcVars >>

\* buildOverlayPdf: oldPdfBase64 ? await PDFDocument.load(...) : await create()
OverlayLoadOld ==
  /\ pc = "ovLoadOld"
  /\ ovOldDoc' = libDocument(cfgOld)
  /\ pc' = "ovLoadNew"
  /\ UNCHANGED << inMessage, oldDoc, newDoc, loopIndex, oldDimensions, newDimensions,
                  oldRender, pages, ovNewDoc, ovResult, result, posted, fault >>
  /\ UNCHANGED << diffVars, calcVars >>

OverlayLoadOldFails ==
  /\ pc = "ovLoadOld"
  /\ cfgOld.kind # "empty"
  /\ Fails("overlay", "Failed to parse PDF document")
  /\ UNCHANGED << diffVars, calcVars >>

OverlayLoadNew ==
  /\ pc = "ovLoadNew"
  /\ ovNewDoc' = libDocument(cfgNew)
  /\ pc' = "ovCreate"
  /\ UNCHANGED << inMessage, oldDoc, newDoc, loopIndex, oldDimensions, newDimensions,
                  oldRender, pages, ovOldDoc, ovResult, result, posted, fault >>
  /\ UNCHANGED << diffVars, calcVars >>

OverlayLoadNewFails ==
  /\ pc = "ovLoadNew"
  /\ cfgNew.kind # "empty"
  /\ Fails("overlay", "Failed to parse PDF document")
  /\ UNCHANGED << diffVars, calcVars >>

\* PDFDocument.create() and embedFont resolve; with no page to show, one
\* 612 x 792 page is added
OverlayCreate ==
  /\ pc = "ovCreate"
  /\ ovResult' = IF Len(pages) = 0
                 THEN << [origin |-> "blank", sourceIndex |-> 0,
                          widthPt |-> 61200, heightPt |-> 79200,
                          ink |-> {}, drawn |-> << >>] >>
                 ELSE << >>
  /\ loopIndex' = 0
  /\ pc' = IF Len(pages) = 0 THEN "ovSave" ELSE "ovImportOld"
  /\ UNCHANGED << inMessage, oldDoc, newDoc, oldDimensions, newDimensions,
                  oldRender, pages, ovOldDoc, ovNewDoc, result, posted, fault >>
  /\ UNCHANGED << diffVars, calcVars >>

OverlayCreateFails ==
  /\ pc = "ovCreate"
  /\ Fails("overlay", "Font could not be embedded")
  /\ UNCHANGED << diffVars, calcVars >>

\* const oldPage = await importPage(result, oldDoc, page.pageIndex, ...)
OverlayImportOld ==
  /\ pc = "ovImportOld"
  /\ LET page == pages[loopIndex + 1]
     IN ovResult' = Append(ovResult,
                      importPage(ovOldDoc, "old", page.pageIndex,
                                 page.pageWidthPt, page.pageHeightPt))
  /\ pc' = "ovImportNew"
  /\ UNCHANGED << inMessage, oldDoc, newDoc, loopIndex, oldDimensions, newDimensions,
                  oldRender, pages, ovOldDoc, ovNewDoc, result, posted, fault >>
  /\ UNCHANGED << diffVars, calcVars >>

OverlayImportOldFails ==
  /\ pc = "ovImportOld"
  /\ pages[loopIndex + 1].pageIndex < Len(ovOldDoc.pages)
  /\ Fails("overlay", "Page could not be copied")
  /\ UNCHANGED << diffVars, calcVars >>

\* const newPage = await importPage(result, newDoc, ...); then the two
\* drawing loops, and the next page
OverlayImportNewAndDraw ==
  /\ pc = "ovImportNew"
  /\ LET page == pages[loopIndex + 1]
         removedColor == hexToRgb(Config.colorRemoved)
         addedColor == hexToRgb(Config.colorAdded)
         oldPage == ovResult[Len(ovResult)]
         newPage == importPage(ovNewDoc, "new", page.pageIndex,
                               page.pageWidthPt, page.pageHeightPt)
     IN ovResult' =
          SubSeq(ovResult, 1, Len(ovResult) - 1)
            \o << drawRegions(oldPage, page.regions, 1, "added", Config, removedColor),
                  drawRegions(newPage, page.regions, 1, "removed", Config, addedColor) >>
  /\ loopIndex' = IF loopIndex + 1 < Len(pages) THEN loopIndex + 1 ELSE 0
  /\ pc' = IF loopIndex + 1 < Len(pages) THEN "ovImportOld" ELSE "ovSave"
  /\ UNCHANGED << inMessage, oldDoc, newDoc, oldDimensions, newDimensions,
                  oldRender, pages, ovOldDoc, ovNewDoc, result, posted, fault >>
  /\ UNCHANGED << diffVars, calcVars >>

OverlayImportNewFails ==
  /\ pc = "ovImportNew"
  /\ pages[loopIndex + 1].pageIndex < Len(ovNewDoc.pages)
  /\ Fails("overlay", "Page could not be copied")
  /\ UNCHANGED << diffVars, calcVars >>

RECURSIVE flatRegions(_, _)
flatRegions(pageList, k) ==
  IF k > Len(pageList) THEN << >>
  ELSE pageList[k].regions \o flatRegions(pageList, k + 1)

\* result.save() resolves, buildOverlayPdf returns the document as base64,
\* comparePdfs returns the "Completed" result
OverlaySaveAndReturn ==
  /\ pc = "ovSave"
  /\ result' = [outputPdfBase64 |-> [isNull |-> FALSE, pages |-> ovResult],
                diffSummaryJson |-> [isNull |-> FALSE, regions |-> flatRegions(pages, 1)],
                diffCount |-> Len(flatRegions(pages, 1)),
                status |-> [head |-> "Completed", message |-> ""]]
  /\ pc' = "returned"
  /\ UNCHANGED << inMessage, oldDoc, newDoc, loopIndex, oldDimensions, newDimensions,
                  oldRender, pages, ovOldDoc, ovNewDoc, ovResult, posted, fault >>
  /\ UNCHANGED << diffVars, calcVars >>

OverlaySaveFails ==
  /\ pc = "ovSave"
  /\ Fails("overlay", "Document could not be saved")
  /\ UNCHANGED << diffVars, calcVars >>

\* handleCompare: ctx.postMessage(result)
WorkerPostsResult ==
  /\ pc = "returned"
  /\ posted' = Append(posted, [type |-> "result", text |-> result.status.head,
                               page |-> 0, of |-> 0])
  /\ pc' = "done"
  /\ UNCHANGED << inMessage, oldDoc, newDoc, loopIndex, oldDimensions, newDimensions,
                  oldRender, pages, ovOldDoc, ovNewDoc, ovResult, result, fault >>
  /\ UNCHANGED << diffVars, calcVars >>

\* one step of a run: at each await the call fails or resolves
Next ==
  \/ WorkerIgnoresMessage \/ WorkerStartsCompare
  \/ LoadFails \/ LoadRejects \/ LoadResolves
  \/ DimensionOldFails \/ DimensionOld \/ DimensionNewFails \/ DimensionNew
  \/ RenderOldFails \/ RenderOld \/ RenderNewFails \/ DiffFails \/ RenderNewAndDiff
  \/ OverlayLoadOldFails \/ OverlayLoadOld \/ OverlayLoadNewFails \/ OverlayLoadNew
  \/ OverlayCreateFails \/ OverlayCreate
  \/ OverlayImportOldFails \/ OverlayImportOld
  \/ OverlayImportNewFails \/ OverlayImportNewAndDraw
  \/ OverlaySaveFails \/ OverlaySaveAndReturn
  \/ WorkerPostsResult

Spec == InitRun /\ [][Next]_vars

\* the event loop runs every continuation whose promise has settled
SpecFair == Spec /\ WF_vars(Next)

\* ------------------------------------------------------------------------
\* Reference notions for the claims about the diff
\* ------------------------------------------------------------------------
SetBits(mask) == {i \in DOMAIN mask : mask[i] # 0}

\* the pixels sharing an edge with pixel i
Around(i, width, height) ==
  {j \in {i - 1, i + 1, i - width, i + width} :
     /\ j >= 0 /\ j < width * height
     /\ (j % width = i % width \/ j \div width = i \div width)}

RECURSIVE Spread(_, _, _, _, _)
Spread(seen, frontier, bits, width, height) ==
  LET next == ((UNION {Around(i, width, height) : i \in frontier}) \cap bits) \ seen
  IN IF next = {} THEN seen
     ELSE Spread(seen \cup next, next, bits, width, height)

\* the 4-connected components of a set of pixels
RECURSIVE ComponentsOf(_, _, _)
ComponentsOf(bits, width, height) ==
  IF bits = {} THEN {}
  ELSE LET p == CHOOSE q \in bits : TRUE
           c == Spread({p}, {p}, bits, width, height)
       IN {c} \cup ComponentsOf(bits \ c, width, height)

RECURSIVE SumOver(_, _)
SumOver(S, data) ==
  IF S = {} THEN 0
  ELSE LET p == CHOOSE q \in S : TRUE IN data[p] + SumOver(S \ {p}, data)

Least(S) == CHOOSE v \in S : \A u \in S : v <= u
Greatest(S) == CHOOSE v \in S : \A u \in S : v >= u

\* the PixelRegion that describes component c
RegionOf(c, width, oldPixels, newPixels) ==
  [area |-> Cardinality(c),
   minX |-> Least({i % width : i \in c}),
   minY |-> Least({i \div width : i \in c}),
   maxX |-> Greatest({i % width : i \in c}) + 1,
   maxY |-> Greatest({i \div width : i \in c}) + 1,
   sumOld |-> SumOver(c, oldPixels.data),
   sumNew |-> SumOver(c, newPixels.data)]

Range(seq) == {seq[k] : k \in DOMAIN seq}

Diffed == dStage \in {"diffed", "classified"} /\ dResult.error = ""
MaskComponents == ComponentsOf(SetBits(dResult.mask), bufOld.width, bufOld.height)

\* ------------------------------------------------------------------------
\* Claims about computeDiff and classifyRegions (specification SpecDiff)
\* ------------------------------------------------------------------------
\* C1: computeDiff(A, A, threshold, minArea) returns no region and an
\* all-zero mask, for every buffer A, threshold >= 0 and minArea.
C1_IdenticalBuffersNoRegions ==
  (dStage \in {"diffed", "classified"} /\ bufOld = bufNew) =>
     /\ dResult.error = ""
     /\ dResult.regions = << >>
     /\ DOMAIN dResult.mask = Pixels(bufOld.width, bufOld.height)
     /\ \A i \in DOMAIN dResult.mask : dResult.mask[i] = 0

\* a page with ink on it was compared with itself at threshold 0
C1_Witness ==
  /\ dStage = "diffed"
  /\ bufOld = bufNew
  /\ inThreshold = 0
  /\ \E i \in DOMAIN bufOld.data : bufOld.data[i] # 255

\* C9 as stated: the regions are in ascending order of the top-left corner of
\* their bounding boxes, by minY and then by minX.
C9_SortedByBoxCorner ==
  Diffed =>
    \A k, l \in DOMAIN dResult.regions :
      k < l => \/ dResult.regions[k].minY < dResult.regions[l].minY
               \/ /\ dResult.regions[k].minY = dResult.regions[l].minY
                  /\ dResult.regions[k].minX <= dResult.regions[l].minX

\* the first pixel, in row-major order, of the component region r describes
FirstPixelOf(r) ==
  Least(CHOOSE c \in MaskComponents :
          RegionOf(c, bufOld.width, bufOld, bufNew) = r)

\* C9 amended: the regions are in ascending row-major order of the first
\* pixel of their components (the leftmost pixel of the top row), so minY
\* never decreases along the list.
C9_SortedByFirstPixel ==
  Diffed =>
    \A k, l \in DOMAIN dResult.regions :
      k < l => /\ FirstPixelOf(dResult.regions[k]) < FirstPixelOf(dResult.regions[l])
               /\ dResult.regions[k].minY <= dResult.regions[l].minY

\* two regions start on the same row and the later one reaches further left
C9_Witness ==
  /\ Diffed
  /\ \E k, l \in DOMAIN dResult.regions :
       /\ k < l
       /\ dResult.regions[k].minY = dResult.regions[l].minY
       /\ dResult.regions[k].minX > dResult.regions[l].minX

\* C10: one PixelRegion per 4-connected component of at least minArea
\* pixels and none for smaller ones; area, tight half-open box inside the
\* canvas and intensity sums are those of the component.
C10_RegionsAreComponents ==
  Diffed =>
    LET big == {c \in MaskComponents : Cardinality(c) >= inMinArea}
    IN /\ Len(dResult.regions) = Cardinality(big)
       /\ Range(dResult.regions) =
            {RegionOf(c, bufOld.width, bufOld, bufNew) : c \in big}
       /\ \A k \in DOMAIN dResult.regions :
            LET r == dResult.regions[k]
            IN /\ inMinArea <= r.area
               /\ r.area <= (r.maxX - r.minX) * (r.maxY - r.minY)
               /\ 0 <= r.minX /\ r.minX < r.maxX /\ r.maxX <= bufOld.width
               /\ 0 <= r.minY /\ r.minY < r.maxY /\ r.maxY <= bufOld.height

\* a component below minArea was dropped next to one that was reported and
\* does not fill its box
C10_Witness ==
  /\ Diffed
  /\ Cardinality(MaskComponents) > Len(dResult.regions)
  /\ \E k \in DOMAIN dResult.regions :
       dResult.regions[k].area <
         (dResult.regions[k].maxX - dResult.regions[k].minX)
           * (dResult.regions[k].maxY - dResult.regions[k].minY)

\* two components touch corner to corner and are reported as two regions
C10_CornerWitness ==
  /\ Diffed
  /\ Len(dResult.regions) = 2
  /\ dResult.regions[1].maxX = dResult.regions[2].minX
  /\ dResult.regions[1].maxY = dResult.regions[2].minY

\* ink present: mean intensity below 245
InkOld(r) == r.sumOld < 245 * r.area
InkNew(r) == r.sumNew < 245 * r.area
KindByInk(r) ==
  IF InkOld(r) /\ ~InkNew(r) THEN "removed"
  ELSE IF InkNew(r) /\ ~InkOld(r) THEN "added"
  ELSE "modified"

\* the DiffRegions emitted for pixel region r
EmittedFor(r) ==
  {k \in DOMAIN dRegions :
     /\ dRegions[k].areaPx = r.area
     /\ dRegions[k].bboxPdfUnits =
          pixelBBoxToPdf(r, [dpi |-> dCtx.dpi, canvasHeightPx |-> dCtx.canvasHeightPx])}

\* C2: a region is 'removed' with ink in old only, 'added' with ink in new
\* only, 'modified' otherwise (ink in both or in neither); every region gets
\* exactly one of the three kinds.
C2_KindFollowsInk ==
  dStage = "classified" =>
    /\ \A k \in DOMAIN dRegions :
         /\ dRegions[k].type \in {"removed", "added", "modified"}
         /\ \E n \in DOMAIN dResult.regions : k \in EmittedFor(dResult.regions[n])
    /\ \A n \in DOMAIN dResult.regions :
         LET r == dResult.regions[n]
         IN /\ Cardinality(EmittedFor(r)) <= 1
            /\ dCtx.dpi = 72 => Cardinality(EmittedFor(r)) = 1
            /\ \A k \in EmittedFor(r) : dRegions[k].type = KindByInk(r)

\* all four ink situations were classified
C2_Witness ==
  /\ dStage = "classified"
  /\ \E k \in DOMAIN dRegions : dRegions[k].type = "removed"
  /\ \E k \in DOMAIN dRegions : dRegions[k].type = "added"

C2_WitnessBoth ==
  /\ dStage = "classified"
  /\ \E n \in DOMAIN dResult.regions :
       /\ InkOld(dResult.regions[n]) /\ InkNew(dResult.regions[n])
       /\ EmittedFor(dResult.regions[n]) # {}

C2_WitnessNeither ==
  /\ dStage = "classified"
  /\ \E n \in DOMAIN dResult.regions :
       /\ ~InkOld(dResult.regions[n]) /\ ~InkNew(dResult.regions[n])
       /\ EmittedFor(dResult.regions[n]) # {}

\* ------------------------------------------------------------------------
\* Claims about one run of comparePdfs and the compare worker
\* ------------------------------------------------------------------------
Returned == pc \in {"returned", "done"}
Completed == Returned /\ result.status.head = "Completed"
Output == result.outputPdfBase64.pages
Unreadable == cfgOld.kind = "garbage" \/ cfgNew.kind = "garbage"

Red == [r |-> 255, g |-> 0, b |-> 0]
Green == [r |-> 0, g |-> 170, b |-> 0]

\* the rectangles drawn on a page of the output, with their colours
RectsOn(page) ==
  {[x |-> d.x, y |-> d.y, width |-> d.width, height |-> d.height, color |-> d.color] :
     d \in Range(page.drawn)}

\* the rectangles of the regions of the given kinds, in one colour
RectsOf(regions, kinds, color) ==
  {[x |-> r.bboxPdfUnits[1], y |-> r.bboxPdfUnits[2],
    width |-> r.bboxPdfUnits[3] - r.bboxPdfUnits[1],
    height |-> r.bboxPdfUnits[4] - r.bboxPdfUnits[2], color |-> color] :
     r \in {q \in Range(regions) : q.type \in kinds}}

CountOf(regions, kinds) == Cardinality({n \in DOMAIN regions : regions[n].type \in kinds})

\* C3: in a completed run the old page of every pair carries exactly the
\* rectangles of that pair's removed and modified regions, in colorRemoved,
\* and the new page exactly those of its added and modified regions, in
\* colorAdded; nothing else is drawn and nothing is left out.
C3_RegionsDrawnOnTheirPages ==
  Completed =>
    \A k \in DOMAIN pages :
      /\ RectsOn(Output[2 * k - 1]) = RectsOf(pages[k].regions, {"removed", "modified"}, Red)
      /\ Len(Output[2 * k - 1].drawn) = CountOf(pages[k].regions, {"removed", "modified"})
      /\ RectsOn(Output[2 * k]) = RectsOf(pages[k].regions, {"added", "modified"}, Green)
      /\ Len(Output[2 * k].drawn) = CountOf(pages[k].regions, {"added", "modified"})

\* a completed run whose first pair has a removed region and whose second
\* pair has an added one
C3_Witness ==
  /\ Completed
  /\ Len(pages) = 2
  /\ \E n \in DOMAIN pages[1].regions : pages[1].regions[n].type = "removed"
  /\ \E n \in DOMAIN pages[2].regions : pages[2].regions[n].type = "added"
  /\ Output[1].drawn # << >> /\ Output[2].drawn = << >>
  /\ Output[3].drawn = << >> /\ Output[4].drawn # << >>

\* a completed run with a modified region, drawn on both pages of its pair
C3_WitnessModified ==
  /\ Completed
  /\ \E k \in DOMAIN pages :
       /\ \E n \in DOMAIN pages[k].regions : pages[k].regions[n].type = "modified"
       /\ Output[2 * k - 1].drawn # << >> /\ Output[2 * k].drawn # << >>

\* what the output shows of page k of an input: the page itself when the
\* input has it, else a blank
ShowsPage(shown, base64, origin, k) ==
  /\ shown.sourceIndex = k
  /\ IF k < Len(base64.pages)
     THEN shown.origin = origin /\ shown.ink = base64.pages[k + 1].ink
     ELSE shown.origin = "blank" /\ shown.ink = {}

\* C4: a completed run over N >= 1 page pairs gives 2N pages: old page 0,
\* new page 0, old page 1, new page 1, ..., in ascending page index, each
\* old page right before its new page.
C4_PagesInPairOrder ==
  Completed /\ Len(pages) >= 1 =>
    /\ Len(Output) = 2 * Len(pages)
    /\ \A k \in 0 .. Len(pages) - 1 :
         /\ pages[k + 1].pageIndex = k
         /\ ShowsPage(Output[2 * k + 1], cfgOld, "old", k)
         /\ ShowsPage(Output[2 * k + 2], cfgNew, "new", k)

\* a completed run over two pairs of different pages
C4_Witness ==
  /\ Completed
  /\ Len(pages) = 2 /\ Len(Output) = 4
  /\ Len(cfgOld.pages) = 2 /\ Len(cfgNew.pages) = 2
  /\ cfgOld.pages[1] # cfgOld.pages[2]
  /\ cfgNew.pages[1] # cfgNew.pages[2]

\* C5: with different page counts a completed run has max(old, new) pairs,
\* and the blank page standing in for a missing page has exactly the width
\* and height of the page it is paired with.
C5_BlankMatchesPairedPage ==
  Completed /\ Len(cfgOld.pages) # Len(cfgNew.pages) =>
    /\ Len(pages) = Max2(Len(cfgOld.pages), Len(cfgNew.pages))
    /\ Len(Output) = 2 * Len(pages)
    /\ \A k \in 1 .. Len(pages) :
         /\ k > Len(cfgOld.pages) =>
              /\ Output[2 * k - 1].origin = "blank"
              /\ Output[2 * k - 1].widthPt = cfgNew.pages[k].widthPt
              /\ Output[2 * k - 1].heightPt = cfgNew.pages[k].heightPt
         /\ k > Len(cfgNew.pages) =>
              /\ Output[2 * k].origin = "blank"
              /\ Output[2 * k].widthPt = cfgOld.pages[k].widthPt
              /\ Output[2 * k].heightPt = cfgOld.pages[k].heightPt

\* the case of the scenario: old has one page, new has two, and the run
\* completed with four pages
C5_Scenario ==
  /\ Completed
  /\ Len(cfgOld.pages) = 1 /\ Len(cfgNew.pages) = 2
  /\ Len(Output) = 4
  /\ Output[3].origin = "blank"

\* C6: once a stage has failed (loading, rendering, diffing or building the
\* overlay) the run goes straight to its result, which has no output
\* document, no summary, a count of 0 and a status "Error: <message>"; no
\* page after the failed one was processed and no region found before the
\* failure is handed back.
C6_FailureGivesBareError ==
  fault.stage # "none" \/ (Unreadable /\ pc \notin {"queued", "loading"}) =>
    /\ Returned
    /\ result.outputPdfBase64.isNull
    /\ result.diffSummaryJson.isNull /\ result.diffSummaryJson.regions = << >>
    /\ result.diffCount = 0
    /\ result.status.head = "Error: " /\ result.status.message # ""
    /\ fault.stage \in {"getPage", "render", "diff"} => Len(pages) = fault.page

\* the diff of the second page failed after the first page gave a region
C6_Witness ==
  /\ pc = "done"
  /\ fault = [stage |-> "diff", page |-> 1]
  /\ Len(pages) = 1 /\ pages[1].regions # << >>
  /\ result.diffCount = 0

\* C7 as stated: an input that is unreadable, empty or without pages ends
\* the run with an error status and no output document.
C7_BadInputIsAnError ==
  Returned /\ (\/ cfgOld.kind \in {"garbage", "empty"}
               \/ cfgNew.kind \in {"garbage", "empty"}
               \/ Len(cfgOld.pages) = 0 \/ Len(cfgNew.pages) = 0) =>
    /\ result.status.head = "Error: "
    /\ result.outputPdfBase64.isNull

\* C7, amended: an input that cannot be loaded ends the run with an error
\* status and no output document, never "Completed"; an empty input, or one
\* that loads with no pages, is no error: when nothing fails the run ends
\* "Completed" with an output document, its missing pages shown blank, and
\* with no page at all on either side the output is one blank 612 x 792
\* page.
C7_OnlyUnreadableIsAnError ==
  Returned =>
    /\ Unreadable =>
         /\ result.status.head = "Error: "
         /\ result.outputPdfBase64.isNull
    /\ ~Unreadable /\ fault.stage = "none" =>
         /\ result.status.head = "Completed"
         /\ ~result.outputPdfBase64.isNull
         /\ Len(cfgOld.pages) = 0 /\ Len(cfgNew.pages) = 0 =>
              /\ Len(Output) = 1
              /\ Output[1].widthPt = 61200 /\ Output[1].heightPt = 79200
              /\ Output[1].origin = "blank"
         /\ \A k \in 1 .. Len(pages) :
              /\ k > Len(cfgOld.pages) => Output[2 * k - 1].origin = "blank"
              /\ k > Len(cfgNew.pages) => Output[2 * k].origin = "blank"

\* the run over two empty inputs has ended
C7_Witness ==
  /\ pc = "done"
  /\ cfgOld.kind = "empty" /\ cfgNew.kind = "empty"
  /\ result.status.head = "Completed"

\* the run over an unreadable input has ended
C7_WitnessUnreadable ==
  /\ pc = "done"
  /\ cfgOld.kind = "garbage" /\ cfgNew.kind = "pdf"
  /\ result.status.head = "Error: "

ResultsPosted == {n \in DOMAIN posted : posted[n].type = "result"}

\* what holds of the result and of the posted messages in every state
ResultPostedLast ==
  /\ ~Returned => result = NoResult
  /\ Returned => result.status.head \in {"Completed", "Error: "}
  /\ pc # "done" => ResultsPosted = {}
  /\ pc = "done" =>
       /\ ResultsPosted = {Len(posted)}
       /\ posted[Len(posted)].text = result.status.head

\* C8: every request comes to its end, comparePdfs having returned one
\* result, "Completed" or "Error: ..."; the worker posts nothing but
\* progress before that and posts that result exactly once, as the last
\* message of the request.
C8_OneResultPostedLast ==
  /\ []ResultPostedLast
  /\ [][result # NoResult => result' = result]_vars
  /\ (inMessage.type = "compare") ~> (pc = "done")

\* a request that failed while diffing its second page is done: progress
\* messages, then the result
C8_Witness ==
  /\ pc = "done"
  /\ Len(posted) >= 5
  /\ result.status.head = "Error: "
  /\ posted[Len(posted) - 1].type = "progress"

\* a request that completed is done
C8_WitnessCompleted ==
  /\ pc = "done"
  /\ result.status.head = "Completed"
  /\ Len(posted) >= 5

\* ------------------------------------------------------------------------
\* Claims about single functions
\* ------------------------------------------------------------------------
OnPixels(mask) == {i \in DOMAIN mask : mask[i] # 0}

\* C11: closing then opening a mask that closing then opening gave changes
\* nothing: open(close(m)) = open(close(open(close(m)))) for every mask m,
\* the pixels on the border of the canvas included.
C11_CloseOpenIdempotent ==
  morph.stage = "twice" => morph.twice = morph.once

\* a mask that closing and opening changed, without emptying it, has been
\* closed and opened twice
C11_Witness ==
  /\ morph.stage = "twice"
  /\ OnPixels(morph.once) # {}
  /\ morph.once # morph.mask
  /\ \E i \in OnPixels(morph.mask) : morph.once[i] = 0
  /\ \E i \in OnPixels(morph.once) : morph.mask[i] = 0

\* the kind a region has when old and new change places
SwappedKind(kind) ==
  IF kind = "added" THEN "removed" ELSE IF kind = "removed" THEN "added" ELSE kind

\* C12: with old and new swapped the pipeline (computeDiff, then
\* classifyRegions) finds the same regions on the same pixels, in the same
\* order, with the same boxes; a region that was 'added' is 'removed', one
\* that was 'removed' is 'added', and 'modified' stays 'modified'.
C12_SwapMirrorsKinds ==
  /\ swapped.stage \in {"diffed", "classified"} =>
       /\ swapped.diff.error = ""
       /\ swapped.diff.mask = dResult.mask
       /\ Len(swapped.diff.regions) = Len(dResult.regions)
       /\ \A n \in DOMAIN dResult.regions :
            LET a == dResult.regions[n]
                b == swapped.diff.regions[n]
            IN /\ << b.minX, b.minY, b.maxX, b.maxY, b.area >>
                    = << a.minX, a.minY, a.maxX, a.maxY, a.area >>
               /\ b.sumOld = a.sumNew /\ b.sumNew = a.sumOld
  /\ swapped.stage = "classified" =>
       /\ Len(swapped.regions) = Len(dRegions)
       /\ \A n \in DOMAIN dRegions :
            /\ swapped.regions[n].bboxPdfUnits = dRegions[n].bboxPdfUnits
            /\ swapped.regions[n].areaPx = dRegions[n].areaPx
            /\ swapped.regions[n].gridCell = dRegions[n].gridCell
            /\ swapped.regions[n].type = SwappedKind(dRegions[n].type)

\* a classified pair of buffers with an added and a modified region
C12_Witness ==
  /\ swapped.stage = "classified"
  /\ bufOld # bufNew
  /\ \E n \in DOMAIN dRegions : dRegions[n].type = "added"
  /\ \E n \in DOMAIN dRegions : dRegions[n].type = "modified"

\* C13: pixelBBoxToPdf gives [x0, y0, x1, y1] with x0 and x1 the box's minX
\* and maxX over the scale dpi / 72, y0 the canvas height less maxY and y1
\* the canvas height less minY over the scale (the vertical flip), each the
\* nearest hundredth of a point; for a box inside the canvas
\* 0 <= x0 <= x1 and 0 <= y0 <= y1.
NearestHundredth(h, pixels, dpi) ==
  /\ (2 * h - 1) * dpi <= 2 * 72 * 100 * pixels
  /\ 2 * 72 * 100 * pixels < (2 * h + 1) * dpi
InsideCanvas(region, canvasHeightPx) ==
  /\ 0 <= region.minX /\ region.minX <= region.maxX
  /\ 0 <= region.minY /\ region.minY <= region.maxY
  /\ region.maxY <= canvasHeightPx
C13_BoxFlippedScaledRounded ==
  calc.op = "pixelBBoxToPdf" =>
    LET region == calc.args.region
        dpi == calc.args.transform.dpi
        canvasHeightPx == calc.args.transform.canvasHeightPx
        bbox == calc.out
    IN /\ NearestHundredth(bbox[1], region.minX, dpi)
       /\ NearestHundredth(bbox[3], region.maxX, dpi)
       /\ NearestHundredth(bbox[2], canvasHeightPx - region.maxY, dpi)
       /\ NearestHundredth(bbox[4], canvasHeightPx - region.minY, dpi)
       /\ InsideCanvas(region, canvasHeightPx) =>
            /\ 0 <= bbox[1] /\ bbox[1] <= bbox[3]
            /\ 0 <= bbox[2] /\ bbox[2] <= bbox[4]

\* a box inside the canvas, off the canvas edges, at a resolution where
\* the hundredths are rounded up for one edge and down for another
C13_Witness ==
  /\ calc.op = "pixelBBoxToPdf"
  /\ InsideCanvas(calc.args.region, calc.args.transform.canvasHeightPx)
  /\ calc.args.region.minX > 0
  /\ calc.args.region.maxY < calc.args.transform.canvasHeightPx
  /\ calc.out[2] > 0
  /\ calc.out[2] < calc.out[4]
  /\ calc.out[1] * calc.args.transform.dpi > 72 * 100 * calc.args.region.minX
  /\ calc.out[3] * calc.args.transform.dpi < 72 * 100 * calc.args.region.maxX

\* C14: a box mapped by pixelBBoxToPdf, taken back to the nearest whole
\* pixels (x * scale, canvasHeightPx - y * scale) and mapped again with the
\* same scale and canvas height, is the first document-space box to within
\* one hundredth of a point, for every box inside the canvas and every
\* resolution from MIN_DPI to MAX_DPI.
PtToPixel(h, dpi) == (2 * h * dpi + 72 * 100) \div (2 * 72 * 100)
BackToPixels(bbox, transform) ==
  [minX |-> PtToPixel(bbox[1], transform.dpi),
   maxX |-> PtToPixel(bbox[3], transform.dpi),
   minY |-> transform.canvasHeightPx - PtToPixel(bbox[4], transform.dpi),
   maxY |-> transform.canvasHeightPx - PtToPixel(bbox[2], transform.dpi)]
C15_GridLabelInsideGrid ==
  calc.op = "gridLabel" =>
    /\ calc.out.row \in 1 .. calc.args.rows
    /\ calc.out.col \in 1 .. calc.args.cols

CentreX(bbox) == bbox[1] + bbox[3]
CentreY(bbox) == bbox[2] + bbox[4]
\* a label for a centre right of and below the page, one for a centre on the
\* top right corner of the page, one for a centre within a grid of several
\* cells that is neither in the first nor in the last of them
C15_WitnessOutside ==
  /\ calc.op = "gridLabel"
  /\ CentreX(calc.args.bbox) > 2 * calc.args.widthPt
  /\ CentreY(calc.args.bbox) < 0
  /\ calc.args.cols > 1 /\ calc.args.rows > 1
  /\ calc.out = [row |-> 1, col |-> calc.args.cols]
C15_WitnessOnBoundary ==
  /\ calc.op = "gridLabel"
  /\ CentreX(calc.args.bbox) = 2 * calc.args.widthPt
  /\ CentreY(calc.args.bbox) = 2 * calc.args.heightPt
  /\ calc.args.cols > 1 /\ calc.args.rows > 1
  /\ calc.out = [row |-> calc.args.rows, col |-> calc.args.cols]
C15_Witness ==
  /\ calc.op = "gridLabel"
  /\ calc.args.cols = MaxGrid
  /\ calc.out.col \in 2 .. MaxGrid - 1
  /\ CentreX(calc.args.bbox) > 0
  /\ CentreX(calc.args.bbox) < 2 * calc.args.widthPt

\* C16: classifyRegions emits a DiffRegion for a pixel region exactly when
\* the width and the height of the box pixelBBoxToPdf gives for it are both
\* at least 0.2 mm in points (0.2 / 25.4 * 72); the test is on the mapped
\* box, so every DiffRegion emitted is at least that wide and that high.
AtLeastMinimumSize(hundredths) == hundredths * 254 >= 2 * 72 * 100
C16_EmittedIffMappedBoxLargeEnough ==
  calc.op = "classifyRegions" =>
    LET region == calc.args.regions[1]
        ctx == calc.args.ctx
        mapped == pixelBBoxToPdf(region,
                    [dpi |-> ctx.dpi, canvasHeightPx |-> ctx.canvasHeightPx])
        largeEnough == /\ AtLeastMinimumSize(mapped[3] - mapped[1])
                       /\ AtLeastMinimumSize(mapped[4] - mapped[2])
    IN /\ Len(calc.out) = (IF largeEnough THEN 1 ELSE 0)
       /\ \A n \in DOMAIN calc.out :
            /\ calc.out[n].bboxPdfUnits = mapped
            /\ AtLeastMinimumSize(calc.out[n].bboxPdfUnits[3] - calc.out[n].bboxPdfUnits[1])
            /\ AtLeastMinimumSize(calc.out[n].bboxPdfUnits[4] - calc.out[n].bboxPdfUnits[2])

\* a box one pixel wide that is emitted, its mapped width being 0.57 points
C16_Witness ==
  /\ calc.op = "classifyRegions"
  /\ Len(calc.out) = 1
  /\ calc.out[1].bboxPdfUnits[3] - calc.out[1].bboxPdfUnits[1] = 57
  /\ calc.args.regions[1].maxX - calc.args.regions[1].minX = 1
\* a box one pixel wide that is dropped, its mapped width being 0.56 points,
\* at a resolution at which another pixel column is 0.57 points wide
C16_WitnessDropped ==
  /\ calc.op = "classifyRegions"
  /\ Len(calc.out) = 0
  /\ LET region == calc.args.regions[1]
         ctx == calc.args.ctx
         mapped == pixelBBoxToPdf(region,
                     [dpi |-> ctx.dpi, canvasHeightPx |-> ctx.canvasHeightPx])
     IN /\ mapped[3] - mapped[1] = 56
        /\ mapped[4] - mapped[2] > 57
        /\ region.maxX - region.minX = 1
        /\ \E m \in 1 .. CoordW :
             round2PxToPt(m, ctx.dpi) - round2PxToPt(m - 1, ctx.dpi) = 57

\* C17: when the two buffers differ in width or in height, computeDiff
\* throws the dimension-mismatch error and has computed no mask and no
\* region; nothing is classified after it.
SameDimensions == bufOld.width = bufNew.width /\ bufOld.height = bufNew.height
C17_MismatchThrowsFirst ==
  (dStage # "input" /\ ~SameDimensions) =>
    /\ dStage = "diffed"
    /\ dResult = [error |-> DimensionError, regions |-> << >>, mask |-> << >>]
    /\ dRegions = << >>

\* buffers of one width and different heights that differ in a stroke as
\* well, after the call
C17_Witness ==
  /\ dStage = "diffed"
  /\ bufOld.width = bufNew.width
  /\ bufOld.height > bufNew.height
  /\ \E i \in DOMAIN bufNew.data : bufNew.data[i] # bufOld.data[i]
  /\ dResult.error = DimensionError
C17_WitnessWidth ==
  /\ dStage = "diffed"
  /\ bufOld.width < bufNew.width
  /\ bufOld.height = bufNew.height
  /\ dResult.error = DimensionError

\* C18: in every run, for every page index, the old and the new buffer that
\* computeDiff was given have one width and one height: the larger of the
\* two pages' rendered widths by the larger of their rendered heights, and
\* at least 1 x 1, a page missing from one document counting as 0 x 0. The
\* dimension-mismatch error never comes out of a run.
RenderedSize(base64, k) ==
  IF base64.kind = "pdf" /\ k <= Len(base64.pages)
  THEN LET page == base64.pages[k]
       IN [widthPx |-> (page.widthPt * Config.dpi + 72 * 100 - 1) \div (72 * 100),
           heightPx |-> (page.heightPt * Config.dpi + 72 * 100 - 1) \div (72 * 100)]
  ELSE [widthPx |-> 0, heightPx |-> 0]
SharedWidth(k) ==
  Max2(1, Max2(RenderedSize(cfgOld, k).widthPx, RenderedSize(cfgNew, k).widthPx))
SharedHeight(k) ==
  Max2(1, Max2(RenderedSize(cfgOld, k).heightPx, RenderedSize(cfgNew, k).heightPx))
OnSharedCanvas(pixels, k) ==
  /\ pixels.width = SharedWidth(k)
  /\ pixels.height = SharedHeight(k)
  /\ Cardinality(DOMAIN pixels.data) = SharedWidth(k) * SharedHeight(k)
C18_BuffersShareOneCanvas ==
  /\ \A k \in DOMAIN pages :
       /\ OnSharedCanvas(pages[k].oldPixels, k)
       /\ OnSharedCanvas(pages[k].newPixels, k)
  /\ pc = "renderNew" => OnSharedCanvas(oldRender.pixels, loopIndex + 1)
  /\ result # NoResult => result.status.message # DimensionError

\* a completed run over two pairs: pages of different sizes in the first,
\* a page missing from the old document in the second
C18_Witness ==
  /\ Completed
  /\ Len(cfgOld.pages) = 1 /\ Len(cfgNew.pages) = 2
  /\ RenderedSize(cfgOld, 1).widthPx < RenderedSize(cfgNew, 1).widthPx
  /\ RenderedSize(cfgOld, 1).heightPx < RenderedSize(cfgNew, 1).heightPx
  /\ RenderedSize(cfgNew, 2).widthPx < RenderedSize(cfgNew, 1).widthPx
  /\ Len(pages) = 2

\* C19: two pages of a pair that differ in size are both put on a canvas of
\* the larger width by the larger height, and every pixel of the canvas
\* that a page's own raster does not cover is white; so in comparePdfs
\* (renderPage) and so in the diff worker (normalizeRender).
RasterOf(page, dpi) ==
  [widthUnits |-> page.widthPt * dpi, heightUnits |-> page.heightPt * dpi]
\* renderPage puts the raster at the bottom left of the canvas
WhiteOffRasterGray(pixels, page, dpi) ==
  LET raster == RasterOf(page, dpi)
  IN \A i \in DOMAIN pixels.data :
       LET x == i % pixels.width
           y == i \div pixels.width
       IN (\/ x * PxUnit >= raster.widthUnits
           \/ (y + 1) * PxUnit <= pixels.height * PxUnit - raster.heightUnits)
          => pixels.data[i] = 255
\* normalizeRender puts the raster at the top left of the canvas
WhiteOffRasterRgba(normalized, own) ==
  \A k \in DOMAIN normalized.data :
    LET x == (k \div 4) % normalized.width
        y == (k \div 4) \div normalized.width
    IN (k % 4 # 3 /\ (x >= own.width \/ y >= own.height))
       => normalized.data[k] = 255
C19_RenderPagePadsWhite ==
  calc.op = "renderPage" =>
    LET dpi == calc.args.dpi
        old == RasterOf(calc.args.oldPage, dpi)
        new == RasterOf(calc.args.newPage, dpi)
    IN /\ calc.out.canvasWidth * PxUnit >= Max2(old.widthUnits, new.widthUnits)
       /\ (calc.out.canvasWidth - 1) * PxUnit < Max2(old.widthUnits, new.widthUnits)
       /\ calc.out.canvasHeight * PxUnit >= Max2(old.heightUnits, new.heightUnits)
       /\ (calc.out.canvasHeight - 1) * PxUnit < Max2(old.heightUnits, new.heightUnits)
       /\ \A pixels \in {calc.out.oldPixels, calc.out.newPixels} :
            /\ pixels.width = calc.out.canvasWidth
            /\ pixels.height = calc.out.canvasHeight
       /\ WhiteOffRasterGray(calc.out.oldPixels, calc.args.oldPage, dpi)
       /\ WhiteOffRasterGray(calc.out.newPixels, calc.args.newPage, dpi)
C19_NormalizeRenderPadsWhite ==
  calc.op = "normalizeRender" =>
    /\ calc.out.targetWidth = Max2(calc.out.oldRender.width, calc.out.newRender.width)
    /\ calc.out.targetHeight = Max2(calc.out.oldRender.height, calc.out.newRender.height)
    /\ \A normalized \in {calc.out.normalizedOld, calc.out.normalizedNew} :
         /\ normalized.width = calc.out.targetWidth
         /\ normalized.height = calc.out.targetHeight
    /\ WhiteOffRasterRgba(calc.out.normalizedOld, calc.out.oldRender)
    /\ WhiteOffRasterRgba(calc.out.normalizedNew, calc.out.newRender)
C19_SharedCanvasPaddedWhite ==
  /\ C19_RenderPagePadsWhite
  /\ C19_NormalizeRenderPadsWhite

\* a pair of pages of different sizes on its canvas in comparePdfs, each
\* page leaving part of the canvas uncovered
C19_RenderPageScenario ==
  /\ calc.op = "renderPage"
  /\ calc.args.oldPage.widthPt > calc.args.newPage.widthPt
  /\ calc.args.oldPage.heightPt < calc.args.newPage.heightPt
  /\ \E i \in DOMAIN calc.out.oldPixels.data : calc.out.oldPixels.data[i] # 255
\* the same in the diff worker: the pixels added around the smaller raster
\* are transparent black, and buildOverlays counts them as differences
C19_NormalizeRenderScenario ==
  /\ calc.op = "normalizeRender"
  /\ calc.args.oldPage = PageBlock
  /\ calc.args.newPage = PageOdd
  /\ calc.args.dpi = 72
  /\ calc.out.oldRender = [width |-> 5, height |-> 5]
  /\ calc.out.targetWidth = 6 /\ calc.out.targetHeight = 5
  /\ \A y \in 0 .. 4 : \A c \in 0 .. 3 : calc.out.normalizedOld.data[(y * 6 + 5) * 4 + c] = 0
  /\ calc.out.greenPixels = 5 * 5 + 5

\* Scenario B: the old page has a black square on the pixels [10,10]-[50,50]
\* of a white page (the far corner read as included or as left out), the
\* new page has the square 5 pixels further right, the threshold is 30.
SquareAt(pixels, x0, y0, x1, y1) ==
  \A i \in DOMAIN pixels.data :
    pixels.data[i] = IF /\ x0 <= i % pixels.width /\ i % pixels.width <= x1
                        /\ y0 <= i \div pixels.width /\ i \div pixels.width <= y1
                     THEN 0 ELSE 255
ScenarioB(end) ==
  /\ inThreshold = 30
  /\ SquareAt(bufOld, 10, 10, end, end)
  /\ SquareAt(bufNew, 15, 10, end + 5, end)
KindsFound == [n \in DOMAIN dRegions |-> dRegions[n].type]
CountKind(kind) == Cardinality({n \in DOMAIN dRegions : dRegions[n].type = kind})

\* C20 as stated: in scenario B the pipeline reports exactly one 'removed'
\* region and one 'modified' region.
C20_ShiftGivesRemovedAndModified ==
  \A end \in SquareEnds :
    (dStage = "classified" /\ ScenarioB(end)) =>
      /\ Len(dRegions) = 2
      /\ CountKind("removed") = 1
      /\ CountKind("modified") = 1

\* C20, amended: in scenario B the pipeline reports exactly two regions, one
\* 'removed' (the strip of 5 columns the square has left) and one 'added'
\* (the strip of 5 columns the square has newly covered), and no 'modified'
\* region.
C20_ShiftGivesRemovedAndAdded ==
  \A end \in SquareEnds :
    (dStage # "input" /\ ScenarioB(end)) =>
      /\ Len(dResult.regions) = 2
      /\ LET left == dResult.regions[1]
             right == dResult.regions[2]
         IN /\ << left.minX, left.minY, left.maxX, left.maxY >>
                 = << 10, 10, 15, end + 1 >>
            /\ << right.minX, right.minY, right.maxX, right.maxY >>
                 = << end + 1, 10, end + 6, end + 1 >>
      /\ dStage = "classified" =>
           /\ Len(dRegions) = 2
           /\ KindsFound = << "removed", "added" >>
           /\ CountKind("modified") = 0

C20_Witness ==
  /\ dStage = "classified"
  /\ ScenarioB(50)
  /\ Len(dRegions) = 2
C20_WitnessHalfOpen ==
  /\ dStage = "classified"
  /\ ScenarioB(49)
  /\ dCtx.dpi = 600
  /\ Len(dRegions) = 2

\* ---------------------------------------------------------------------------
\* The engine control (index.ts, first CompareSetViewer): inputs bound by the
\* host, the debounce timer, and the compare worker it posts to.
\* Whole numbers are kept as they are; strokeWidthPt and overlayAlpha are in
\* hundredths. A string is a sequence of one-character strings. A PDF string is
\* kept as its first 24 characters (head) and the rest (tail).

DEFAULT_DPI == 144
DEFAULT_GRID == 10
DEFAULT_THRESHOLD == 18
DEFAULT_MIN_AREA == 64
DEFAULT_STROKE_WIDTH == 80
DEFAULT_ALPHA == 25
DEFAULT_REMOVED == << "#", "F", "F", "0", "0", "0", "0" >>
DEFAULT_ADDED == << "#", "0", "0", "A", "A", "0", "0" >>

\* Raw values of the bound parameters: null, NaN, the infinities, or a value.
NullNumber == [t |-> "null", v |-> 0]
NaN == [t |-> "nan", v |-> 0]
PlusInfinity == [t |-> "inf", v |-> 0]
MinusInfinity == [t |-> "-inf", v |-> 0]
Num(v) == [t |-> "num", v |-> v]
NullString == [t |-> "null", v |-> << >>]
Str(chars) == [t |-> "str", v |-> chars]
EmptyPdfString == [head |-> "", tail |-> ""]
NullPdfRaw == [t |-> "null", v |-> EmptyPdfString]
PdfStr(head, tail) == [t |-> "str", v |-> [head |-> head, tail |-> tail]]

\* buildConfig's safeNumber: typeof value !== "number" or NaN gives the
\* fallback, otherwise Math.min(Math.max(value, min), max).
safeNumber(value, fallback, min, max) ==
  IF value.t \in {"null", "nan"} THEN fallback
  ELSE IF value.t = "inf" THEN max
  ELSE IF value.t = "-inf" THEN min
  ELSE Min2(Max2(value.v, min), max)

clampAlpha(value) ==
  IF value.t \in {"null", "nan"} THEN DEFAULT_ALPHA
  ELSE IF value.t = "inf" THEN 100
  ELSE IF value.t = "-inf" THEN 0
  ELSE Min2(Max2(value.v, 0), 100)

HexDigits ==
  {"0", "1", "2", "3", "4", "5", "6", "7", "8", "9",
   "a", "b", "c", "d", "e", "f", "A", "B", "C", "D", "E", "F"}
WhiteSpace == {" ", "\t", "\n"}

RECURSIVE trimStart(_)
trimStart(chars) ==
  IF Len(chars) > 0 /\ Head(chars) \in WhiteSpace THEN trimStart(Tail(chars)) ELSE chars
RECURSIVE trimEnd(_)
trimEnd(chars) ==
  IF Len(chars) > 0 /\ chars[Len(chars)] \in WhiteSpace
    THEN trimEnd(SubSeq(chars, 1, Len(chars) - 1))
    ELSE chars
\* String.prototype.trim
trim(chars) == trimEnd(trimStart(chars))

\* /^#?[0-9a-fA-F]{6}$/.test(chars)
testHexColor(chars) ==
  \/ Len(chars) = 6 /\ \A k \in 1..6 : chars[k] \in HexDigits
  \/ Len(chars) = 7 /\ chars[1] = "#" /\ \A k \in 2..7 : chars[k] \in HexDigits

\* buildConfig's normalizeColor: the test is on the trimmed string, the value
\* returned is the string as bound.
normalizeColor(value, fallback) ==
  IF value.t # "str" \/ ~testHexColor(trim(value.v)) THEN fallback
  ELSE IF Len(value.v) > 0 /\ value.v[1] = "#" THEN value.v
  ELSE << "#" >> \o value.v

buildConfig(context) ==
  [oldPdfBase64 |-> IF context.oldPdfBase64.t = "null" THEN EmptyPdfString ELSE context.oldPdfBase64.v,
   newPdfBase64 |-> IF context.newPdfBase64.t = "null" THEN EmptyPdfString ELSE context.newPdfBase64.v,
   dpi |-> safeNumber(context.dpi, DEFAULT_DPI, 72, 600),
   gridRows |-> safeNumber(context.gridRows, DEFAULT_GRID, 1, 100),
   gridCols |-> safeNumber(context.gridCols, DEFAULT_GRID, 1, 100),
   diffThreshold |-> safeNumber(context.diffThreshold, DEFAULT_THRESHOLD, 0, 255),
   minRegionArea |-> safeNumber(context.minRegionArea, DEFAULT_MIN_AREA, 1, 1000000),
   strokeWidthPt |-> safeNumber(context.strokeWidthPt, DEFAULT_STROKE_WIDTH, 10, 1000),
   overlayAlpha |-> clampAlpha(context.overlayAlpha),
   colorRemoved |-> normalizeColor(context.colorRemoved, DEFAULT_REMOVED),
   colorAdded |-> normalizeColor(context.colorAdded, DEFAULT_ADDED)]

\* hashInputs: JSON.stringify of the first 24 characters of each PDF and the
\* nine other fields.
hashInputs(config) ==
  << config.oldPdfBase64.head, config.newPdfBase64.head, config.dpi,
     config.gridRows, config.gridCols, config.diffThreshold,
     config.minRegionArea, config.strokeWidthPt, config.overlayAlpha,
     config.colorRemoved, config.colorAdded >>

IsEmptyPdf(pdf) == pdf.head = "" /\ pdf.tail = ""

EngineOutputs(pdf, summary, count, status) ==
  [outputPdfBase64 |-> pdf, diffSummaryJson |-> summary, diffCount |-> count, status |-> status]

\* The control after construction: the field initialisers of the class.
NewEngine(host) ==
  [phase |-> "constructed",
   host |-> host,
   context |-> << >>,
   worker |-> FALSE,
   debounceHandle |-> FALSE,
   latestInputs |-> << >>,
   lastRunInputsKey |-> << >>,
   lastRunCompareFlag |-> FALSE,
   outputs |-> EngineOutputs(<< >>, "null", 0, "Idle"),
   inbox |-> << >>,
   startedBy |-> "nothing",
   sent |-> << >>,
   epoch |-> 0,
   overtaken |-> FALSE,
   updates |-> 0]

ensureWorker(e) == [e EXCEPT !.worker = TRUE]

\* triggerCompare: nothing without inputs; "Waiting for both PDFs..." when a
\* PDF is empty; otherwise the outputs are cleared, the key of the inputs is
\* recorded and the compare request is posted to the worker.
triggerCompare(e) ==
  IF e.latestInputs = << >> THEN e
  ELSE IF IsEmptyPdf(e.latestInputs[1].oldPdfBase64) \/ IsEmptyPdf(e.latestInputs[1].newPdfBase64)
    THEN [e EXCEPT !.outputs = EngineOutputs(<< >>, "null", 0, "Waiting for both PDFs...")]
  ELSE [ensureWorker(e) EXCEPT
          !.outputs = EngineOutputs(<< >>, "null", 0, "Starting comparison..."),
          !.lastRunInputsKey = hashInputs(e.latestInputs[1]),
          !.inbox = Append(e.inbox, [type |-> "compare", payload |-> e.latestInputs[1]])]

\* scheduleCompare: the pending timeout is cleared and a new one is set.
scheduleCompare(e) == [e EXCEPT !.debounceHandle = TRUE]

\* applyInputs that starts a comparison whenever runCompare is on.
applyInputsLevelTriggered(e, context) ==
  LET cfg == buildConfig(context)
      withInputs == [e EXCEPT !.latestInputs = << cfg >>]
  IN IF context.runCompare = "true"
       THEN triggerCompare([withInputs EXCEPT !.lastRunCompareFlag = TRUE])
       ELSE [withInputs EXCEPT !.lastRunCompareFlag = FALSE]

applyInputs(e, context) ==
  LET cfg == buildConfig(context)
      withInputs == [e EXCEPT !.latestInputs = << cfg >>]
      runRequested == context.runCompare = "true"
  IN IF runRequested /\ ~e.lastRunCompareFlag
       THEN triggerCompare([withInputs EXCEPT !.lastRunCompareFlag = TRUE])
     ELSE LET flagged == IF ~runRequested
                           THEN [withInputs EXCEPT !.lastRunCompareFlag = FALSE]
                           ELSE withInputs
          IN IF flagged.lastRunInputsKey # hashInputs(cfg)
               THEN scheduleCompare(flagged)
               ELSE flagged

\* The contexts the host binds. In a "parameters" run the host binds one
\* parameter away from its default and later only switches runCompare; in a
\* "documents" run it varies the new PDF and runCompare.
MaxUpdates == 3

OldPdf == PdfStr("JVBERi0xLjQKJcfsj6IKNSAw", "old")
NewPdf == PdfStr("JVBERi0xLjcKJeLjz9MKMSAw", "new")
NewPdfRevised == PdfStr("JVBERi0xLjcKJeLjz9MKMSAw", "revised")

BaseContext ==
  [oldPdfBase64 |-> OldPdf,
   newPdfBase64 |-> NewPdf,
   dpi |-> Num(DEFAULT_DPI),
   gridRows |-> Num(DEFAULT_GRID),
   gridCols |-> Num(DEFAULT_GRID),
   diffThreshold |-> Num(DEFAULT_THRESHOLD),
   minRegionArea |-> Num(DEFAULT_MIN_AREA),
   strokeWidthPt |-> Num(DEFAULT_STROKE_WIDTH),
   overlayAlpha |-> Num(DEFAULT_ALPHA),
   colorRemoved |-> Str(DEFAULT_REMOVED),
   colorAdded |-> Str(DEFAULT_ADDED),
   runCompare |-> "true"]

NumberRaws(min, max) ==
  {NullNumber, NaN, PlusInfinity, MinusInfinity,
   Num(min - 1), Num(min), Num(max), Num(max + 1)}

ColourRaws ==
  {NullString,
   Str(<< >>),
   Str(<< "#", "1", "2", "a", "B", "c", "D" >>),
   Str(<< "0", "0", "a", "a", "0", "0" >>),
   Str(<< " ", "#", "F", "F", "0", "0", "0", "0" >>),
   Str(<< "F", "F", "0", "0", "0", "0", " " >>),
   Str(<< "#", "F", "F", "0", "0", "0", "0", "\n" >>),
   Str(<< "#", "F", "F", "0" >>),
   Str(<< "#", "G", "G", "0", "0", "0", "0" >>),
   Str(<< "#", "F", "F", "0", "0", "0", "0", "0" >>),
   Str(<< "r", "e", "d" >>)}

ParameterContexts ==
  {[BaseContext EXCEPT !.dpi = r] : r \in NumberRaws(72, 600)}
    \cup {[BaseContext EXCEPT !.gridRows = r] : r \in NumberRaws(1, 100)}
    \cup {[BaseContext EXCEPT !.gridCols = r] : r \in NumberRaws(1, 100)}
    \cup {[BaseContext EXCEPT !.diffThreshold = r] : r \in NumberRaws(0, 255)}
    \cup {[BaseContext EXCEPT !.minRegionArea = r] : r \in NumberRaws(1, 1000000)}
    \cup {[BaseContext EXCEPT !.strokeWidthPt = r] : r \in NumberRaws(10, 1000)}
    \cup {[BaseContext EXCEPT !.overlayAlpha = r] : r \in NumberRaws(0, 100)}
    \cup {[BaseContext EXCEPT !.colorRemoved = r] : r \in ColourRaws}
    \cup {[BaseContext EXCEPT !.colorAdded = r] : r \in ColourRaws}
    \cup {[BaseContext EXCEPT !.colorAdded = r, !.runCompare = "false"] : r \in ColourRaws}

DocumentContexts ==
  {[BaseContext EXCEPT !.newPdfBase64 = pdf, !.runCompare = run] :
     pdf \in {NullPdfRaw, NewPdf, NewPdfRevised}, run \in {"true", "false"}}
    \cup {[BaseContext EXCEPT !.runCompare = "null"]}

HostContexts(e) ==
  IF e.host = "documents" THEN DocumentContexts
  ELSE IF e.context = << >> THEN ParameterContexts
  ELSE {[e.context[1] EXCEPT !.runCompare = run] : run \in {"true", "false"}}

\* History: which handler posted the latest compare request; sent lists
\* every request posted, with its handler and the number of times the
\* inputs had changed before it (epoch).
StartedBy(before, after, handler) ==
  LET epoch == IF before.latestInputs # << >> /\ after.latestInputs # before.latestInputs
               THEN before.epoch + 1 ELSE before.epoch
      counted == [after EXCEPT !.epoch = epoch]
  IN  IF Len(after.inbox) > Len(before.inbox)
      THEN [counted EXCEPT !.startedBy = handler,
                           !.sent = Append(@, [payload |-> after.inbox[Len(after.inbox)].payload,
                                               by |-> handler, epoch |-> epoch])]
      ELSE counted

OtherIdle == DiffIdle /\ RunIdle /\ morph = NoMorph /\ swapped = NoSwapped /\ calc = NoCalc
OthersUnchanged == UNCHANGED << diffVars, runVars, morph, swapped, calc >>

\* init: the worker is created and the bound inputs are applied.
EngineInit ==
  /\ engine.phase = "constructed"
  /\ \E context \in HostContexts(engine) :
       engine' = StartedBy(engine,
                           applyInputs(ensureWorker([engine EXCEPT !.phase = "live",
                                                                   !.context = << context >>]),
                                       context),
                           "init")
  /\ UNCHANGED queued
  /\ OthersUnchanged

EngineUpdateView ==
  /\ engine.phase = "live"
  /\ engine.updates < MaxUpdates
  /\ \E context \in HostContexts(engine) :
       engine' = StartedBy(engine,
                           applyInputs([engine EXCEPT !.context = << context >>,
                                                      !.updates = @ + 1],
                                       context),
                           "updateView")
  /\ UNCHANGED queued
  /\ OthersUnchanged

\* The timeout set by scheduleCompare fires.
DebounceFires ==
  /\ engine.phase = "live"
  /\ engine.debounceHandle
  /\ engine' = StartedBy(engine, triggerCompare([engine EXCEPT !.debounceHandle = FALSE]), "timer")
  /\ UNCHANGED queued
  /\ OthersUnchanged

ProgressTexts == {"Loading PDFs...", "Building overlay PDF..."}

\* The worker's onmessage is async and awaits handleCompare, so the runs of
\* the requests it holds advance in any order. It posts a progress message
\* of one of them, and the control's onmessage shows its text. overtaken
\* remembers that a message of a later request came before the result of
\* an earlier one.
EngineWorkerProgress ==
  /\ engine.phase = "live"
  /\ engine.worker
  /\ \E k \in DOMAIN engine.inbox, text \in ProgressTexts :
       engine' = [engine EXCEPT !.outputs.status = text,
                                !.overtaken = @ \/ k > 1]
  /\ UNCHANGED queued
  /\ OthersUnchanged

RemoveAt(seq, k) == SubSeq(seq, 1, k - 1) \o SubSeq(seq, k + 1, Len(seq))

\* The worker posts the result of a request, and the control's onmessage
\* replaces the outputs by it.
EngineWorkerResult ==
  /\ engine.phase = "live"
  /\ engine.worker
  /\ \E k \in DOMAIN engine.inbox :
       \E message \in {EngineOutputs(<< engine.inbox[k].payload >>, "summary", 1, "Completed"),
                       EngineOutputs(<< >>, "null", 0, "Error: ")} :
         engine' = [engine EXCEPT !.outputs = message,
                                  !.inbox = RemoveAt(engine.inbox, k),
                                  !.overtaken = @ \/ k > 1]
  /\ UNCHANGED queued
  /\ OthersUnchanged

EngineWorkerError ==
  /\ engine.phase = "live"
  /\ engine.worker
  /\ engine' = [engine EXCEPT !.outputs.status = "Error: "]
  /\ UNCHANGED queued
  /\ OthersUnchanged

\* destroy: the worker is terminated and the pending timeout cleared.
EngineDestroy ==
  /\ engine.phase = "live"
  /\ engine' = [engine EXCEPT !.phase = "destroyed", !.worker = FALSE,
                              !.debounceHandle = FALSE, !.inbox = << >>]
  /\ UNCHANGED queued
  /\ OthersUnchanged

NextEngine ==
  \/ EngineInit
  \/ EngineUpdateView
  \/ DebounceFires
  \/ EngineWorkerProgress
  \/ EngineWorkerResult
  \/ EngineWorkerError
  \/ EngineDestroy

InitEngine ==
  /\ OtherIdle
  /\ queued = NoQueued
  /\ engine = NewEngine("documents")

InitConfig ==
  /\ OtherIdle
  /\ queued = NoQueued
  /\ engine = NewEngine("parameters")

SpecEngine == InitEngine /\ [][NextEngine]_vars
SpecConfig == InitConfig /\ [][NextEngine]_vars

\* ---------------------------------------------------------------------------
\* C21: what the engine control posts to the worker.

NumbersInRange(config) ==
  /\ config.dpi >= 72 /\ config.dpi <= 600
  /\ config.diffThreshold >= 0 /\ config.diffThreshold <= 255
  /\ config.minRegionArea >= 1 /\ config.minRegionArea <= 1000000
  /\ config.gridRows >= 1 /\ config.gridRows <= 100
  /\ config.gridCols >= 1 /\ config.gridCols <= 100
  /\ config.strokeWidthPt >= 10 /\ config.strokeWidthPt <= 1000
  /\ config.overlayAlpha >= 0 /\ config.overlayAlpha <= 100

HashAndSixHexDigits(chars) ==
  /\ Len(chars) = 7
  /\ chars[1] = "#"
  /\ \A k \in 2..7 : chars[k] \in HexDigits

\* C21: every CompareConfig the engine control posts to the worker has its
\* numbers inside their ranges (dpi 72..600, diffThreshold 0..255,
\* minRegionArea 1..1000000, gridRows and gridCols 1..100, strokeWidthPt
\* 0.1..10, overlayAlpha 0..1) and each colour a '#' followed by exactly six
\* hex digits, whatever raw inputs are bound.
C21_PostedConfigWellFormed ==
  \A k \in DOMAIN engine.inbox :
    /\ engine.inbox[k].type = "compare"
    /\ NumbersInRange(engine.inbox[k].payload)
    /\ HashAndSixHexDigits(engine.inbox[k].payload.colorRemoved)
    /\ HashAndSixHexDigits(engine.inbox[k].payload.colorAdded)

\* ---------------------------------------------------------------------------
\* C22: runCompare is edge-triggered in the engine control.

\* A step in which init or updateView applied a bound context.
AppliesInputs ==
  /\ engine'.phase = "live"
  /\ engine.phase = "constructed" \/ engine'.updates = engine.updates + 1

RunWasOn == engine.context # << >> /\ engine.context[1].runCompare = "true"
RunTurnsOn ==
  /\ engine.phase = "live"
  /\ engine'.context[1].runCompare = "true"
  /\ ~RunWasOn
FirstBindingOn == engine.phase = "constructed" /\ engine'.context[1].runCompare = "true"
BothPdfsBound ==
  /\ ~IsEmptyPdf(buildConfig(engine'.context[1]).oldPdfBase64)
  /\ ~IsEmptyPdf(buildConfig(engine'.context[1]).newPdfBase64)
InputsUnchanged ==
  /\ engine.latestInputs # << >>
  /\ engine.latestInputs[1] = buildConfig(engine'.context[1])
PostsLatestInputsAtOnce ==
  /\ engine'.inbox = Append(engine.inbox,
                            [type |-> "compare", payload |-> buildConfig(engine'.context[1])])
  /\ engine'.debounceHandle = engine.debounceHandle
ArmsTimer == engine'.debounceHandle /\ ~engine.debounceHandle

\* C22 as stated: when runCompare goes from off to on, a comparison of the
\* latest inputs is posted in that very call, without the debounce timer; a
\* call that leaves runCompare on with unchanged inputs posts nothing and arms
\* no timer for inputs already compared; and a call posts only when runCompare
\* was off before it (or is on at the first binding).
C22_RisingEdgeStartsAtOnce ==
  [][AppliesInputs =>
       /\ RunTurnsOn => PostsLatestInputsAtOnce
       /\ (RunWasOn /\ engine'.context[1].runCompare = "true" /\ InputsUnchanged) =>
            /\ engine'.inbox = engine.inbox
            /\ ArmsTimer => engine.lastRunInputsKey # hashInputs(engine.latestInputs[1])
       /\ engine'.inbox # engine.inbox => RunTurnsOn \/ FirstBindingOn]_vars

\* C22, amended: the same, with the immediate start only when both PDFs are
\* bound; a rising edge with a PDF missing posts nothing and shows
\* "Waiting for both PDFs...".
C22_RisingEdgeWithBothPdfsStartsAtOnce ==
  [][AppliesInputs =>
       /\ (RunTurnsOn /\ BothPdfsBound) => PostsLatestInputsAtOnce
       /\ (RunTurnsOn /\ ~BothPdfsBound) =>
            /\ engine'.inbox = engine.inbox
            /\ engine'.outputs.status = "Waiting for both PDFs..."
       /\ (RunWasOn /\ engine'.context[1].runCompare = "true" /\ InputsUnchanged) =>
            /\ engine'.inbox = engine.inbox
            /\ ArmsTimer => engine.lastRunInputsKey # hashInputs(engine.latestInputs[1])
       /\ engine'.inbox # engine.inbox => RunTurnsOn \/ FirstBindingOn]_vars

\* updateView has posted a request on a rising edge, and runCompare is still on.
C22_Witness ==
  /\ engine.phase = "live"
  /\ engine.startedBy = "updateView"
  /\ engine.updates >= 2
  /\ engine.lastRunCompareFlag
  /\ engine.context[1].runCompare = "true"
  /\ Len(engine.inbox) >= 1
  /\ engine.inbox[Len(engine.inbox)].payload = engine.latestInputs[1]

\* A rising edge with the new PDF missing: nothing posted, the edge is used up.
C22_WitnessWaiting ==
  /\ engine.phase = "live"
  /\ engine.lastRunCompareFlag
  /\ engine.startedBy = "nothing"
  /\ engine.inbox = << >>
  /\ engine.outputs.status = "Waiting for both PDFs..."
  /\ ~engine.debounceHandle

\* ---------------------------------------------------------------------------
\* C23: what the diff worker's overlays mark.

SummedDifference(oldData, newData, i) ==
  Abs(oldData[i] - newData[i]) + Abs(oldData[i + 1] - newData[i + 1])
    + Abs(oldData[i + 2] - newData[i + 2])
\* a pixel of an overlay is marked when it is not fully transparent
Marked(overlay, i) == overlay[i + 3] # 0
\* ink is opaque black, the background opaque white
IsInk(data, i) == data[i] + data[i + 1] + data[i + 2] = 0 /\ data[i + 3] = 255
IsBackground(data, i) == data[i] + data[i + 1] + data[i + 2] = 3 * 255 /\ data[i + 3] = 255

\* every pixel over the threshold is marked in exactly one overlay, and no
\* pixel at or under the threshold is marked in either
C23_MarkedInExactlyOneOverlay ==
  calc.op = "normalizeRender" =>
    \A i \in {k \in DOMAIN calc.out.red : k % 4 = 0} :
      LET diff == SummedDifference(calc.out.normalizedOld.data, calc.out.normalizedNew.data, i)
      IN /\ diff > calc.args.threshold => Marked(calc.out.red, i) # Marked(calc.out.green, i)
         /\ diff <= calc.args.threshold => ~Marked(calc.out.red, i) /\ ~Marked(calc.out.green, i)

\* C23: in the diff worker every pixel whose summed RGB difference exceeds the
\* threshold is marked in exactly one overlay and pixels at or under the
\* threshold in neither; the red overlay (drawn on the old page) marks removed
\* content, ink in old and background in new, and the green overlay (drawn on
\* the new page) marks added content, background in old and ink in new.
C23_RedRemovedGreenAdded ==
  /\ C23_MarkedInExactlyOneOverlay
  /\ calc.op = "normalizeRender" =>
       \A i \in {k \in DOMAIN calc.out.red : k % 4 = 0} :
         LET oldData == calc.out.normalizedOld.data
             newData == calc.out.normalizedNew.data
             over == SummedDifference(oldData, newData, i) > calc.args.threshold
         IN /\ (over /\ IsInk(oldData, i) /\ IsBackground(newData, i)) => Marked(calc.out.red, i)
            /\ (over /\ IsBackground(oldData, i) /\ IsInk(newData, i)) => Marked(calc.out.green, i)

\* ---------------------------------------------------------------------------
\* C24: what an error status tells the user.

\* The parts the status text `Error: ${message}` is made of: the literal head
\* and the message of the exception that was caught.
StatusParts(status) ==
  {<< "text", status.head >>, << "message", status.message >>}

\* C24: every error status returned to the user identifies both the page index
\* and the pipeline stage at which the failure occurred.
C24_ErrorStatusNamesPageAndStage ==
  (pc \in {"returned", "done"} /\ result.status.head = "Error: " /\ fault # NoFault) =>
    /\ << "page", ToString(fault.page) >> \in StatusParts(result.status)
    /\ << "stage", fault.stage >> \in StatusParts(result.status)

\* ---------------------------------------------------------------------------
\* C25: comparePdfs takes the page pairs one after another.

IsPageNote(m) == m.type = "progress" /\ m.text \in {"Rendering page", "Diffing page"}
PageNotes == SelectSeq(posted, IsPageNote)
IsOverlayNote(m) == m.type = "progress" /\ m.text = "Building overlay PDF..."
InPageLoop == pc \in {"dimOld", "dimNew", "renderOld", "renderNew"}

\* C25: comparePdfs processes the page pairs strictly one after another in
\* ascending index: while page i is worked on, exactly the pages before it
\* have been rendered, diffed and classified; the progress notes come as
\* "Rendering page 1", "Diffing page 1", "Rendering page 2", ...; and
\* "Building overlay PDF..." comes once, after every page note, when the last
\* page has been classified.
C25_PagesOneAfterAnother ==
  LET notes == PageNotes
  IN /\ \A k \in DOMAIN pages : pages[k].pageIndex = k - 1
     /\ InPageLoop =>
          /\ Len(pages) = loopIndex
          /\ loopIndex < pageCount
          /\ Len(notes) \in {2 * loopIndex + 1, 2 * loopIndex + 2}
     /\ \A k \in DOMAIN notes :
          /\ notes[k].text = IF k % 2 = 1 THEN "Rendering page" ELSE "Diffing page"
          /\ notes[k].page = (k + 1) \div 2
          /\ notes[k].of = pageCount
     /\ Len(notes) \in {2 * Len(pages), 2 * Len(pages) + 1, 2 * Len(pages) + 2}
     /\ \A k \in DOMAIN posted :
          IsOverlayNote(posted[k]) =>
            /\ Len(pages) = pageCount
            /\ Len(notes) = 2 * pageCount
            /\ \A j \in DOMAIN posted :
                 /\ IsPageNote(posted[j]) => j < k
                 /\ IsOverlayNote(posted[j]) => j = k

\* both pages of a two-page comparison are classified and the overlay is announced
C25_Witness ==
  /\ Len(pages) = 2
  /\ Len(PageNotes) = 4
  /\ \E k \in DOMAIN posted : IsOverlayNote(posted[k])
  /\ pc = "ovLoadOld"

\* ---------------------------------------------------------------------------
\* SpecFlood: findRegions with the pending pixels taken in any order. The
\* pending pixels are kept as a set and any of them is taken next; the order
\* in which the four neighbours are pushed only arranges the stack, so every
\* way of popping and of enumerating neighbours is one of these runs.
FloodSide == 6
FloodW == 2 * FloodSide - 1
FloodH == FloodSide - 1

\* gray values that differ from pixel to pixel, so that the sums tell the
\* pixels of a region apart
FloodOld == [width |-> FloodW, height |-> FloodH,
             data |-> Stored([i \in Pixels(FloodW, FloodH) |-> 200 + ((7 * i) % 50)])]
FloodNewOf(changed) ==
  [width |-> FloodW, height |-> FloodH,
   data |-> Stored([i \in Pixels(FloodW, FloodH) |->
              IF i \in changed THEN (11 * i) % 60 ELSE FloodOld.data[i]])]

\* the pixels that differ: a block of 3 by 3 pixels, up to one more block
\* that overlaps it or lies apart from it, and up to one single pixel
FloodBlocks ==
  {RectPixels(x0, 1, x0 + 2, y1, FloodW) :
     x0 \in {2, FloodW - 4}, y1 \in 3 .. FloodH - 2}
FloodChanges ==
  {B \cup C \cup S : B \in {RectPixels(1, 1, 3, 3, FloodW), RectPixels(0, 0, 2, 2, FloodW)},
                     C \in FloodBlocks \cup {{}},
                     S \in {{}, {FloodW + 5}, {FloodW - 1}}}

InitFlood ==
  /\ DiffIdle
  /\ RunIdle
  /\ morph = NoMorph
  /\ swapped = NoSwapped
  /\ CtlIdle
  /\ \E changed \in FloodChanges, minArea \in {1, 10} :
       LET diff == computeDiff(FloodOld, FloodNewOf(changed), 30, minArea)
       IN calc = [op |-> "flood",
                  args |-> [oldPixels |-> FloodOld, newPixels |-> FloodNewOf(changed),
                            minArea |-> minArea, mask |-> diff.mask,
                            regions |-> diff.regions],
                  out |-> [scan |-> 0, visited |-> {}, pending |-> {}, filling |-> FALSE,
                           acc |-> [minX |-> 0, maxX |-> 0, minY |-> 0, maxY |-> 0,
                                    area |-> 0, sumOld |-> 0, sumNew |-> 0],
                           regions |-> << >>]]

\* the pixels of the scan that start a region: set and not yet visited
FloodSeeds ==
  {i \in Pixels(FloodW, FloodH) :
     i >= calc.out.scan /\ calc.args.mask[i] # 0 /\ i \notin calc.out.visited}

\* the for loops over y and x pass over clear and visited pixels; the next
\* pixel left is pushed and marked
FloodNextSeed ==
  /\ calc.op = "flood"
  /\ ~calc.out.filling
  /\ FloodSeeds # {}
  /\ LET index == CHOOSE i \in FloodSeeds : \A j \in FloodSeeds : i <= j
         x == index % FloodW
         y == index \div FloodW
     IN calc' = [calc EXCEPT !.out.scan = index,
                             !.out.filling = TRUE,
                             !.out.pending = {index},
                             !.out.visited = @ \cup {index},
                             !.out.acc = [minX |-> x, maxX |-> x, minY |-> y, maxY |-> y,
                                          area |-> 0, sumOld |-> 0, sumNew |-> 0]]
  /\ UNCHANGED << diffVars, runVars, morph, swapped, ctlVars >>

\* one round of the while loop, with any pending pixel as `current`
FloodVisitAny ==
  /\ calc.op = "flood"
  /\ calc.out.filling
  /\ \E current \in calc.out.pending :
       LET cx == current % FloodW
           cy == current \div FloodW
           pushed == {n \in Pixels(FloodW, FloodH) :
                        /\ \E k \in DOMAIN offsets :
                             /\ n % FloodW = cx + offsets[k].dx
                             /\ n \div FloodW = cy + offsets[k].dy
                        /\ calc.args.mask[n] # 0
                        /\ n \notin calc.out.visited}
           acc == calc.out.acc
       IN calc' = [calc EXCEPT
                     !.out.pending = (@ \ {current}) \cup pushed,
                     !.out.visited = @ \cup pushed,
                     !.out.acc = [minX |-> Min2(acc.minX, cx), maxX |-> Max2(acc.maxX, cx),
                                  minY |-> Min2(acc.minY, cy), maxY |-> Max2(acc.maxY, cy),
                                  area |-> acc.area + 1,
                                  sumOld |-> acc.sumOld + calc.args.oldPixels.data[current],
                                  sumNew |-> acc.sumNew + calc.args.newPixels.data[current]]]
  /\ UNCHANGED << diffVars, runVars, morph, swapped, ctlVars >>

\* the stack is empty: the region is kept if it is large enough
FloodRegionDone ==
  /\ calc.op = "flood"
  /\ calc.out.filling
  /\ calc.out.pending = {}
  /\ LET acc == calc.out.acc
         region == [area |-> acc.area, minX |-> acc.minX, minY |-> acc.minY,
                    maxX |-> acc.maxX + 1, maxY |-> acc.maxY + 1,
                    sumOld |-> acc.sumOld, sumNew |-> acc.sumNew]
     IN calc' = [calc EXCEPT
                   !.out.filling = FALSE,
                   !.out.scan = @ + 1,
                   !.out.regions = IF acc.area >= calc.args.minArea
                                     THEN Append(@, region) ELSE @]
  /\ UNCHANGED << diffVars, runVars, morph, swapped, ctlVars >>

\* the scan has passed the last pixel: findRegions returns
FloodReturns ==
  /\ calc.op = "flood"
  /\ ~calc.out.filling
  /\ FloodSeeds = {}
  /\ calc' = [calc EXCEPT !.op = "flooded"]
  /\ UNCHANGED << diffVars, runVars, morph, swapped, ctlVars >>

NextFlood == FloodNextSeed \/ FloodVisitAny \/ FloodRegionDone \/ FloodReturns

SpecFlood == InitFlood /\ [][NextFlood]_vars

\* C27: the regions computeDiff returns (area, box, sumOld, sumNew of each)
\* do not depend on the order in which the flood fill visits the pixels: a
\* fill that takes the pending pixels in any order returns the regions the
\* code's fill returns.
C27_AnyVisitOrderSameRegions ==
  calc.op = "flooded" =>
    /\ Range(calc.out.regions) = Range(calc.args.regions)
    /\ Len(calc.out.regions) = Len(calc.args.regions)

\* two regions found by a fill in some order
C27_Witness ==
  /\ calc.op = "flooded"
  /\ Len(calc.out.regions) = 2
  /\ calc.out.regions = calc.args.regions
\* one region of two overlapping blocks
C27_WitnessMerged ==
  /\ calc.op = "flooded"
  /\ Len(calc.out.regions) = 1
  /\ calc.out.regions[1].area = 12

\* ---------------------------------------------------------------------------
\* SpecBorder: computeDiff on canvases of every small size, the new page
\* inked on a rectangle anywhere on the canvas, the old page white or inked
\* on one pixel.
BorderSide == 6

InitBorder ==
  /\ RunIdle
  /\ CalcIdle
  /\ \E width \in 1 .. BorderSide, height \in 1 .. BorderSide :
       \E x0 \in 0 .. width - 1, x1 \in 0 .. width - 1,
          y0 \in 0 .. height - 1, y1 \in 0 .. height - 1, hole \in BOOLEAN :
         /\ x0 <= x1 /\ y0 <= y1
         /\ bufOld = IF hole /\ width > 2 /\ height > 2
                       THEN PaintSquare(width, height, 2, 2, 2, 2, 0)
                       ELSE PaintSquare(width, height, 1, 1, 0, 0, 0)
         /\ bufNew = PaintSquare(width, height, x0, y0, x1, y1, 0)
  /\ inThreshold = 30
  /\ inMinArea = 1
  /\ dStage = "input"
  /\ dResult = NoDiff
  /\ dCtx = NoCtx
  /\ dRegions = << >>

SpecBorder == InitBorder /\ [][NextDiff]_vars

\* C28: the mask computeDiff returns has no set bit in the outermost rows and
\* columns; so every region returned is at least 3 pixels wide and 3 high,
\* and buffers less than 5 pixels wide or high give no regions.
C28_MaskClearOfBorder ==
  (dStage # "input" /\ dResult.error = "") =>
    LET width == bufOld.width
        height == bufOld.height
    IN /\ \A i \in DOMAIN dResult.mask :
            dResult.mask[i] # 0 =>
              /\ i % width \notin {0, width - 1}
              /\ i \div width \notin {0, height - 1}
       /\ \A k \in DOMAIN dResult.regions :
            /\ dResult.regions[k].maxX - dResult.regions[k].minX >= 3
            /\ dResult.regions[k].maxY - dResult.regions[k].minY >= 3
       /\ (width < 5 \/ height < 5) => dResult.regions = << >>

\* every pixel of a 5 by 6 canvas differs, and the region found is the
\* canvas without its border
C28_Witness ==
  /\ dStage = "diffed"
  /\ bufOld.width = 5 /\ bufOld.height = 6
  /\ \A i \in DOMAIN bufNew.data : bufNew.data[i] = 0 /\ bufOld.data[i] = 255
  /\ Len(dResult.regions) = 1
  /\ dResult.regions[1] = [area |-> 12, minX |-> 1, minY |-> 1, maxX |-> 4, maxY |-> 5,
                           sumOld |-> 12 * 255, sumNew |-> 0]
\* every pixel of a 4 by 6 canvas differs, and no region is found
C28_WitnessNarrow ==
  /\ dStage = "diffed"
  /\ bufOld.width = 4 /\ bufOld.height = 6
  /\ \A i \in DOMAIN bufNew.data : bufNew.data[i] = 0 /\ bufOld.data[i] = 255
  /\ dResult.regions = << >>

\* ---------------------------------------------------------------------------
\* The queued control (third CompareSetViewer of index.ts; the control of
\* part_008 has the same updateView, startComparison, worker handlers,
\* flushPendingRequest and resetState, and none of the user actions).

QUEUED_DEFAULT_DPI == 200
QUEUED_DEFAULT_THRESHOLD == 36
MIN_THRESHOLD == 0
MAX_THRESHOLD == 765

\* Number of host and user calls followed in one behaviour.
MaxCalls == 3

NoPayload == << >>
NoDiffPdf == << >>
Status(prefix, text) == [prefix |-> prefix, text |-> text]
NoStatus == Status("", "")

\* The worker's answer to a request is determined by the request.
ResultOf(payload) == [of |-> payload]

NewQueued ==
  [phase |-> "constructed", worker |-> FALSE, diffPdfBase64 |-> NoDiffPdf,
   busy |-> FALSE, pendingRequest |-> NoPayload, lastProcessed |-> NoPayload,
   lastRequested |-> NoPayload, statusMessage |-> NoStatus,
   isProcessing |-> FALSE, currentOldBase64 |-> << >>,
   currentNewBase64 |-> << >>, currentDpi |-> QUEUED_DEFAULT_DPI,
   currentThreshold |-> QUEUED_DEFAULT_THRESHOLD, manualMode |-> FALSE,
   atWorker |-> << >>, reads |-> {}, delivered |-> << >>, calls |-> 0,
   requested |-> NoPayload, failed |-> FALSE]

setDiff(q, value) == [q EXCEPT !.diffPdfBase64 = value]

setStatus(q, value) == [q EXCEPT !.statusMessage = value]

setBusy(q, value) ==
  IF q.busy = value THEN q
  ELSE [q EXCEPT !.busy = value, !.isProcessing = value]

hasReadyPayload(q) == q.currentOldBase64 # << >> /\ q.currentNewBase64 # << >>

RECURSIVE indexOf(_, _, _)
indexOf(chars, c, from) ==
  IF from > Len(chars) THEN 0
  ELSE IF chars[from] = c THEN from
  ELSE indexOf(chars, c, from + 1)

\* normalizeBase64: null for a missing, empty or blank value; otherwise the
\* trimmed value after its first comma, without white space (<< >> is null,
\* << chars >> a string).
normalizeBase64(value) ==
  IF value.t = "null" \/ value.v = << >> THEN << >>
  ELSE LET trimmed == trim(value.v)
           commaIndex == indexOf(trimmed, ",", 1)
           base64 == IF commaIndex >= 1
                     THEN SubSeq(trimmed, commaIndex + 1, Len(trimmed))
                     ELSE trimmed
           sanitized == SelectSeq(base64, LAMBDA c : c \notin WhiteSpace)
       IN  IF trimmed = << >> \/ sanitized = << >> THEN << >> ELSE << sanitized >>

\* normalizeNumber: a finite number is rounded and clamped, anything else is
\* the fallback (the numbers bound here are whole, so Math.round keeps them).
normalizeNumber(value, fallback, min, max) ==
  IF value.t = "num" THEN Min2(Max2(value.v, min), max) ELSE fallback

Digits == {"0", "1", "2", "3", "4", "5", "6", "7", "8", "9"}
DigitValue(c) ==
  CASE c = "0" -> 0 [] c = "1" -> 1 [] c = "2" -> 2 [] c = "3" -> 3
    [] c = "4" -> 4 [] c = "5" -> 5 [] c = "6" -> 6 [] c = "7" -> 7
    [] c = "8" -> 8 [] c = "9" -> 9

RECURSIVE parseDigits(_, _, _)
parseDigits(chars, from, acc) ==
  IF from > Len(chars) \/ chars[from] \notin Digits THEN acc
  ELSE parseDigits(chars, from + 1, 10 * acc + DigitValue(chars[from]))

\* Number.parseInt(text, 10): leading white space is skipped, then an
\* optional sign and the longest run of digits; no digit gives NaN.
parseInt10(text) ==
  LET t == trimStart(text)
      signed == t # << >> /\ t[1] \in {"-", "+"}
      body == IF signed THEN Tail(t) ELSE t
  IN  IF body = << >> \/ body[1] \notin Digits THEN NaN
      ELSE IF signed /\ t[1] = "-" THEN Num(0 - parseDigits(body, 1, 0))
      ELSE Num(parseDigits(body, 1, 0))

Base64Alphabet ==
  {"A", "B", "C", "D", "E", "F", "G", "H", "I", "J", "K", "L", "M", "N", "O",
   "P", "Q", "R", "S", "T", "U", "V", "W", "X", "Y", "Z", "a", "b", "c", "d",
   "e", "f", "g", "h", "i", "j", "k", "l", "m", "n", "o", "p", "q", "r", "s",
   "t", "u", "v", "w", "x", "y", "z", "0", "1", "2", "3", "4", "5", "6", "7",
   "8", "9", "+", "/"}

\* decodeBase64's atob throws on a character outside the alphabet, on
\* padding that is not at the end, and on a length atob cannot decode.
atobThrows(base64) ==
  LET unpadded == IF Len(base64) % 4 = 0 /\ Len(base64) >= 2
                     /\ base64[Len(base64)] = "="
                  THEN IF base64[Len(base64) - 1] = "="
                       THEN SubSeq(base64, 1, Len(base64) - 2)
                       ELSE SubSeq(base64, 1, Len(base64) - 1)
                  ELSE base64
  IN  \/ \E i \in DOMAIN unpadded : unpadded[i] \notin Base64Alphabet
      \/ Len(unpadded) % 4 = 1

isSamePayload(source, target) ==
  /\ source # NoPayload
  /\ source[1].oldBase64 = target.oldBase64
  /\ source[1].newBase64 = target.newBase64
  /\ source[1].dpi = target.dpi
  /\ source[1].threshold = target.threshold

RECURSIVE startComparison(_, _)
RECURSIVE handleWorkerError(_, _)
RECURSIVE flushPendingRequest(_)

\* startComparison: a failing decode ends in handleWorkerError and posts
\* nothing; otherwise the request goes to the worker (a terminated worker
\* takes none). failed remembers that the run of the payload requested last
\* ended in an error.
startComparison(q, payload) ==
  LET q1 == setStatus(setDiff([setBusy(q, TRUE) EXCEPT
                                 !.lastRequested = << payload >>,
                                 !.pendingRequest = NoPayload], NoDiffPdf),
                      Status("", "Preparando comparação..."))
  IN  IF atobThrows(payload.oldBase64) \/ atobThrows(payload.newBase64)
      THEN [handleWorkerError(q1, "InvalidCharacterError") EXCEPT
              !.failed = @ \/ q.requested = << payload >>]
      ELSE [q1 EXCEPT !.worker = TRUE,
                      !.atWorker = IF q.phase = "destroyed" THEN @
                                   ELSE Append(@, payload)]

handleWorkerError(q, message) ==
  flushPendingRequest(
    setStatus(setDiff([setBusy(q, FALSE) EXCEPT !.lastRequested = NoPayload],
                      NoDiffPdf),
              Status("Erro: ", message)))

flushPendingRequest(q) ==
  IF q.pendingRequest = NoPayload THEN q
  ELSE LET next == q.pendingRequest[1]
           q1 == [q EXCEPT !.pendingRequest = NoPayload]
       IN  IF isSamePayload(q1.lastProcessed, next) THEN q1
           ELSE IF q1.busy THEN [q1 EXCEPT !.pendingRequest = << next >>]
           ELSE startComparison(q1, next)

handleWorkerStatus(q, message) == setStatus(q, Status("", message))

handleWorkerResult(q, base64) ==
  IF q.lastRequested = NoPayload THEN flushPendingRequest(setBusy(q, FALSE))
  ELSE flushPendingRequest(
         setStatus(setDiff([setBusy(q, FALSE) EXCEPT
                              !.lastProcessed = q.lastRequested,
                              !.lastRequested = NoPayload],
                           << base64 >>),
                   Status("", "Comparação concluída.")))

\* requested is the payload the inputs called for last (none after a call
\* without both PDFs).
resetState(q) ==
  setDiff(setBusy([q EXCEPT !.pendingRequest = NoPayload,
                            !.lastRequested = NoPayload,
                            !.lastProcessed = NoPayload,
                            !.requested = NoPayload, !.failed = FALSE],
                  FALSE), NoDiffPdf)

requestComparison(q, payload) ==
  LET q0 == IF q.requested = << payload >> THEN q
            ELSE [q EXCEPT !.requested = << payload >>, !.failed = FALSE]
  IN  IF q0.diffPdfBase64 # NoDiffPdf /\ isSamePayload(q0.lastProcessed, payload)
      THEN q0
      ELSE IF q0.busy /\ isSamePayload(q0.lastRequested, payload) THEN q0
      ELSE IF q0.busy THEN [q0 EXCEPT !.pendingRequest = << payload >>]
      ELSE startComparison([q0 EXCEPT !.failed = FALSE], payload)

buildPayloadFromState(q) ==
  IF ~hasReadyPayload(q) THEN NoPayload
  ELSE << [oldBase64 |-> q.currentOldBase64[1],
           newBase64 |-> q.currentNewBase64[1],
           dpi |-> q.currentDpi, threshold |-> q.currentThreshold] >>

triggerComparisonFromState(q) ==
  LET payload == buildPayloadFromState(q)
  IN  IF payload = NoPayload THEN q ELSE requestComparison(q, payload[1])

setFileState(q, kind, base64) ==
  IF kind = "old" THEN [q EXCEPT !.currentOldBase64 = base64]
  ELSE [q EXCEPT !.currentNewBase64 = base64]

WaitingStatus == Status("", "Envie dois PDFs para iniciar a comparação.")

updateView(q, context) ==
  LET oldBase64 == normalizeBase64(context.oldPdfBase64)
      newBase64 == normalizeBase64(context.newPdfBase64)
      dpi == normalizeNumber(context.dpi, QUEUED_DEFAULT_DPI, MIN_DPI, MAX_DPI)
      threshold == normalizeNumber(context.threshold, QUEUED_DEFAULT_THRESHOLD,
                                   MIN_THRESHOLD, MAX_THRESHOLD)
      q1 == [q EXCEPT !.currentDpi = dpi, !.currentThreshold = threshold]
  IN  IF q.manualMode THEN q
      ELSE IF oldBase64 = << >> \/ newBase64 = << >>
      THEN setStatus(resetState([q1 EXCEPT !.currentOldBase64 = << >>,
                                           !.currentNewBase64 = << >>]),
                     WaitingStatus)
      ELSE requestComparison(
             [q1 EXCEPT !.currentOldBase64 = oldBase64,
                        !.currentNewBase64 = newBase64],
             [oldBase64 |-> oldBase64[1], newBase64 |-> newBase64[1],
              dpi |-> dpi, threshold |-> threshold])

\* handleSettingsChange after the user edited one of the two inputs: the
\* other input holds String() of its current value, which parses and
\* normalises to itself.
handleSettingsChange(q, field, text) ==
  LET q1 == IF field = "dpi"
            THEN [q EXCEPT !.manualMode = TRUE,
                           !.currentDpi = normalizeNumber(parseInt10(text),
                                            QUEUED_DEFAULT_DPI, MIN_DPI, MAX_DPI)]
            ELSE [q EXCEPT !.manualMode = TRUE,
                           !.currentThreshold = normalizeNumber(parseInt10(text),
                                                  QUEUED_DEFAULT_THRESHOLD,
                                                  MIN_THRESHOLD, MAX_THRESHOLD)]
  IN  IF hasReadyPayload(q1) THEN triggerComparisonFromState(q1) ELSE q1

\* Inputs of the host and of the user.
PdfA == << "Q", "Q", "=", "=" >>
PdfB == << "Q", "U", "I", "=" >>
PdfC == << "Q", "U", "M", "=" >>
QueuedContexts ==
  [oldPdfBase64 : {NullString,
                   Str(<< "d", "a", "t", "a", ":", ";", "b", "a", "s", "e",
                          "6", "4", "," >> \o PdfA)},
   newPdfBase64 : {NullString, Str(<< " " >>),
                   Str(<< " ", "Q", "U", "\n", "I", "=", " " >>),
                   Str(PdfC), Str(<< "Q", "!" >>)},
   dpi : {Num(200), NaN},
   threshold : {Num(36), Num(900)}]
SettingsTexts == {<< "3", "0", "0" >>, << " ", "9", "x" >>, << >>}
FileKinds == {"old", "new"}
FileContents == {PdfA, PdfB}
StatusTexts == {"Carregando PDFs...", "Processando página 1 de 1...", "Concluído."}

Called(q) == [q EXCEPT !.calls = @ + 1, !.delivered = << >>]

QueuedInit ==
  /\ queued.phase = "constructed"
  /\ queued' = setStatus([queued EXCEPT !.phase = "live"], WaitingStatus)
  /\ UNCHANGED engine
  /\ OthersUnchanged

QueuedUpdateView ==
  /\ queued.phase = "live"
  /\ queued.calls < MaxCalls
  /\ \E context \in QueuedContexts :
       queued' = updateView(Called(queued), context)
  /\ UNCHANGED engine
  /\ OthersUnchanged

\* handleFileChange with the file input emptied (the inputs are disabled
\* while busy).
QueuedFileRemoved ==
  /\ queued.phase = "live"
  /\ queued.calls < MaxCalls
  /\ ~queued.busy
  /\ \E kind \in FileKinds :
       LET q1 == setFileState(Called(queued), kind, << >>)
       IN  queued' = IF ~hasReadyPayload(q1)
                     THEN setStatus(resetState(q1), WaitingStatus)
                     ELSE q1
  /\ UNCHANGED engine
  /\ OthersUnchanged

\* handleFileChange with a file that is not a PDF.
QueuedFileRejected ==
  /\ queued.phase = "live"
  /\ queued.calls < MaxCalls
  /\ ~queued.busy
  /\ queued' = setStatus(Called(queued), Status("", "Selecione um arquivo PDF válido."))
  /\ UNCHANGED engine
  /\ OthersUnchanged

\* handleFileChange with a PDF, up to the await of readFileAsBase64.
QueuedFileChosen ==
  /\ queued.phase = "live"
  /\ queued.calls < MaxCalls
  /\ ~queued.busy
  /\ \E kind \in FileKinds, ok \in BOOLEAN, content \in FileContents :
       /\ ok \/ content = PdfA
       /\ queued' = setStatus([Called(queued) EXCEPT
                                 !.manualMode = TRUE,
                                 !.reads = @ \cup {[kind |-> kind, ok |-> ok,
                                                    base64 |-> content]}],
                              Status("Carregando ", kind))
  /\ UNCHANGED engine
  /\ OthersUnchanged

\* handleFileChange after the await: the read file is stored and compared,
\* or the read failed.
QueuedFileRead ==
  /\ queued.phase \in {"live", "destroyed"}
  /\ \E read \in queued.reads :
       LET q1 == [queued EXCEPT !.reads = @ \ {read}, !.delivered = << >>]
       IN  queued' = IF read.ok
                     THEN triggerComparisonFromState(
                            setFileState(q1, read.kind, << read.base64 >>))
                     ELSE setStatus(q1, Status("Erro: ", "Não foi possível ler o arquivo."))
  /\ UNCHANGED engine
  /\ OthersUnchanged

QueuedSettingsChange ==
  /\ queued.phase = "live"
  /\ queued.calls < MaxCalls
  /\ \E field \in {"dpi", "threshold"}, text \in SettingsTexts :
       queued' = handleSettingsChange(Called(queued), field, text)
  /\ UNCHANGED engine
  /\ OthersUnchanged

\* The compare button (disabled while busy or without both PDFs).
QueuedCompareClick ==
  /\ queued.phase = "live"
  /\ queued.calls < MaxCalls
  /\ ~queued.busy
  /\ hasReadyPayload(queued)
  /\ queued' = triggerComparisonFromState([Called(queued) EXCEPT !.manualMode = TRUE])
  /\ UNCHANGED engine
  /\ OthersUnchanged

\* The worker's replies. Its onmessage is async, so the requests it holds
\* are answered in any order. delivered remembers, for the step after a
\* result, whose result it was and whether lastRequested held that request.
QueuedWorkerStatus ==
  /\ queued.phase = "live"
  /\ queued.atWorker # << >>
  /\ \E message \in StatusTexts :
       queued' = handleWorkerStatus([queued EXCEPT !.delivered = << >>], message)
  /\ UNCHANGED engine
  /\ OthersUnchanged

QueuedWorkerResult ==
  /\ queued.phase = "live"
  /\ \E k \in DOMAIN queued.atWorker :
       LET request == queued.atWorker[k]
           q1 == [queued EXCEPT !.atWorker = RemoveAt(@, k)]
       IN  queued' = [handleWorkerResult(q1, ResultOf(request)) EXCEPT
                        !.delivered = << [of |-> request,
                                          awaited |-> queued.lastRequested = << request >>] >>]
  /\ UNCHANGED engine
  /\ OthersUnchanged

\* An "error" reply of the worker, or its onerror.
QueuedWorkerError ==
  /\ queued.phase = "live"
  /\ \E k \in DOMAIN queued.atWorker, message \in {"PDF", "onerror"} :
       queued' = handleWorkerError(
                   [queued EXCEPT !.atWorker = RemoveAt(@, k),
                                  !.delivered = << >>,
                                  !.failed = @ \/ queued.requested = << queued.atWorker[k] >>],
                   message)
  /\ UNCHANGED engine
  /\ OthersUnchanged

\* destroy terminates the worker.
QueuedDestroy ==
  /\ queued.phase = "live"
  /\ queued' = [queued EXCEPT !.phase = "destroyed", !.atWorker = << >>,
                              !.delivered = << >>]
  /\ UNCHANGED engine
  /\ OthersUnchanged

NextQueued ==
  \/ QueuedInit
  \/ QueuedUpdateView
  \/ QueuedFileRemoved
  \/ QueuedFileRejected
  \/ QueuedFileChosen
  \/ QueuedFileRead
  \/ QueuedSettingsChange
  \/ QueuedCompareClick
  \/ QueuedWorkerStatus
  \/ QueuedWorkerResult
  \/ QueuedWorkerError
  \/ QueuedDestroy

InitQueued ==
  /\ OtherIdle
  /\ engine = NoEngine
  /\ queued = NewQueued

SpecQueued == InitQueued /\ [][NextQueued]_vars

\* ---------------------------------------------------------------------------
\* C29: in the queued controls at most one comparison request is outstanding
\* at the worker at any time, under every interleaving of updateView calls
\* (those with a missing PDF included), user actions and worker replies.
C29_AtMostOneOutstanding == Len(queued.atWorker) <= 1

\* ---------------------------------------------------------------------------
\* C30: whenever diffPdfBase64 is set it is the worker's result for exactly
\* the payload in lastProcessed, and a result whose request is the one in
\* lastRequested is recorded, never dropped.
DiffIsOfLastProcessed ==
  queued.diffPdfBase64 # NoDiffPdf =>
    /\ queued.lastProcessed # NoPayload
    /\ queued.diffPdfBase64 = << ResultOf(queued.lastProcessed[1]) >>

AwaitedResultRecorded ==
  (queued.delivered # << >> /\ queued.delivered[1].awaited) =>
    queued.lastProcessed = << queued.delivered[1].of >>

C30_DiffBelongsToLastProcessed == DiffIsOfLastProcessed /\ AwaitedResultRecorded

\* ---------------------------------------------------------------------------
\* C31: once the inputs have stopped changing and the worker has answered
\* every request, the exposed diff is the result for the payload requested
\* last: no older payload's result is the final one, and the payload
\* requested last has its result exposed unless its own run failed.
QueuedQuiescent ==
  /\ queued.phase = "live"
  /\ queued.atWorker = << >>
  /\ queued.reads = {}

FinalDiffIsOfRequested ==
  (QueuedQuiescent /\ queued.diffPdfBase64 # NoDiffPdf) =>
    /\ queued.requested # NoPayload
    /\ queued.diffPdfBase64 = << ResultOf(queued.requested[1]) >>

RequestedIsExposed ==
  (QueuedQuiescent /\ queued.requested # NoPayload /\ ~queued.failed) =>
    queued.diffPdfBase64 = << ResultOf(queued.requested[1]) >>

C31_FinalDiffIsLatestRequest == FinalDiffIsOfRequested /\ RequestedIsExposed

\* ---------------------------------------------------------------------------
\* C32: the isProcessing output equals busy in every reachable state, busy
\* is true exactly while a posted request is unanswered, and a failure
\* inside startComparison leaves busy false, no diff and an 'Erro: ' status.
ProcessingIsBusy == queued.isProcessing = queued.busy

BusyWhileUnanswered ==
  queued.phase = "live" => (queued.busy <=> queued.atWorker # << >>)

DecodeFailureResets ==
  queued.statusMessage = Status("Erro: ", "InvalidCharacterError") =>
    ~queued.busy /\ queued.diffPdfBase64 = NoDiffPdf

C32_BusyExactlyWhileUnanswered ==
  ProcessingIsBusy /\ BusyWhileUnanswered /\ DecodeFailureResets

\* ---------------------------------------------------------------------------
\* The diff worker's onmessage (diff.ts): one request from its arrival to
\* its last message. Every await is a step at which the awaited call may
\* reject; calc.out.posted is what the worker has posted so far.

StatusMessage(text, index, total) ==
  [type |-> "status", text |-> text, index |-> index, total |-> total]
ResultMessage(pageCountOut) ==
  [type |-> "result", text |-> "base64", index |-> 0, total |-> pageCountOut]
ErrorMessage(text) ==
  [type |-> "error", text |-> text, index |-> 0, total |-> 0]

sendStatus(messages, text, index, total) ==
  Append(messages, StatusMessage(text, index, total))

totalPagesMax(oldNumPages, newNumPages) == Max2(oldNumPages, newNumPages)
totalPagesOf(oldNumPages, newNumPages) == Min2(oldNumPages, newNumPages)

\* The catch block: the error message is posted and the handler ends.
WorkerCatches(message) ==
  calc' = [calc EXCEPT !.op = "worker-done",
                       !.out.posted = Append(@, ErrorMessage(message))]

WorkerDocuments ==
  [readable : BOOLEAN, numPages : 0..(MaxPages + 1), lib : BOOLEAN]

InitWorker ==
  /\ DiffIdle
  /\ RunIdle
  /\ morph = NoMorph
  /\ swapped = NoSwapped
  /\ CtlIdle
  /\ \E empty \in BOOLEAN, oldPdf \in WorkerDocuments, newPdf \in WorkerDocuments :
       /\ empty => (oldPdf = newPdf /\ oldPdf = [readable |-> TRUE, numPages |-> 1, lib |-> TRUE])
       /\ calc = [op |-> "worker-idle",
                  args |-> [empty |-> empty, oldPdf |-> oldPdf, newPdf |-> newPdf],
                  out |-> [posted |-> << >>, totalPages |-> 0, index |-> 0,
                           outPages |-> 0]]

\* lines 185-191: a falsy payload is ignored; otherwise the first status
WorkerReceives ==
  /\ calc.op = "worker-idle"
  /\ calc' = IF calc.args.empty THEN [calc EXCEPT !.op = "worker-returned"]
             ELSE [calc EXCEPT !.op = "worker-loading",
                               !.out.posted = sendStatus(@, "Carregando PDFs...", 0, 0)]
  /\ UNCHANGED << diffVars, runVars, morph, swapped, ctlVars >>

\* lines 194-202: both documents load; no page to compare is an error
WorkerLoads ==
  /\ calc.op = "worker-loading"
  /\ calc.args.oldPdf.readable /\ calc.args.newPdf.readable
  /\ LET totalPages == totalPagesOf(calc.args.oldPdf.numPages, calc.args.newPdf.numPages)
     IN  IF totalPages = 0 THEN WorkerCatches("PDFs sem páginas.")
         ELSE calc' = [calc EXCEPT !.op = "worker-loaded",
                                   !.out.totalPages = totalPages]
  /\ UNCHANGED << diffVars, runVars, morph, swapped, ctlVars >>

WorkerLoadFails ==
  /\ calc.op = "worker-loading"
  /\ ~(calc.args.oldPdf.readable /\ calc.args.newPdf.readable)
  /\ WorkerCatches("Invalid PDF structure.")
  /\ UNCHANGED << diffVars, runVars, morph, swapped, ctlVars >>

\* lines 204-208: pdf-lib loads both documents and creates the output
WorkerLibLoads ==
  /\ calc.op = "worker-loaded"
  /\ calc.args.oldPdf.lib /\ calc.args.newPdf.lib
  /\ calc' = [calc EXCEPT !.op = "worker-page", !.out.index = 1]
  /\ UNCHANGED << diffVars, runVars, morph, swapped, ctlVars >>

WorkerLibLoadFails ==
  /\ calc.op = "worker-loaded"
  /\ ~(calc.args.oldPdf.lib /\ calc.args.newPdf.lib)
  /\ WorkerCatches("Failed to parse PDF document")
  /\ UNCHANGED << diffVars, runVars, morph, swapped, ctlVars >>

\* lines 210-211: the loop test and the status of the page
WorkerPageStatus ==
  /\ calc.op = "worker-page"
  /\ calc.out.index <= calc.out.totalPages
  /\ calc' = [calc EXCEPT !.op = "worker-render",
                          !.out.posted = sendStatus(@, "Processando página",
                                                    calc.out.index, calc.out.totalPages)]
  /\ UNCHANGED << diffVars, runVars, morph, swapped, ctlVars >>

\* lines 213-227: getPage, renderPage, normalizeRender and buildOverlays
WorkerRendersPage ==
  /\ calc.op = "worker-render"
  /\ calc.out.index <= calc.args.oldPdf.numPages
  /\ calc.out.index <= calc.args.newPdf.numPages
  /\ calc' = [calc EXCEPT !.op = "worker-copy"]
  /\ UNCHANGED << diffVars, runVars, morph, swapped, ctlVars >>

\* getPage rejects, or renderPage throws because the canvas gives no 2d
\* context
WorkerRenderFails ==
  /\ calc.op = "worker-render"
  /\ WorkerCatches("Contexto do canvas indisponível.")
  /\ UNCHANGED << diffVars, runVars, morph, swapped, ctlVars >>

\* lines 229-256: both pages are copied, the overlays drawn, and the two
\* pages added to the output; the loop index moves on
WorkerAddsPages ==
  /\ calc.op = "worker-copy"
  /\ calc' = [calc EXCEPT !.op = "worker-page",
                          !.out.outPages = @ + 2,
                          !.out.index = @ + 1]
  /\ UNCHANGED << diffVars, runVars, morph, swapped, ctlVars >>

\* copyPages or embedPng rejects
WorkerCopyFails ==
  /\ calc.op = "worker-copy"
  /\ WorkerCatches("Erro inesperado.")
  /\ UNCHANGED << diffVars, runVars, morph, swapped, ctlVars >>

\* lines 259-264: after the loop the output is saved, and the last status
\* and the result are posted
WorkerSavesAndPosts ==
  /\ calc.op = "worker-page"
  /\ calc.out.index > calc.out.totalPages
  /\ calc' = [calc EXCEPT
                !.op = "worker-done",
                !.out.posted = Append(sendStatus(@, "Concluído.", 0, 0),
                                      ResultMessage(calc.out.outPages))]
  /\ UNCHANGED << diffVars, runVars, morph, swapped, ctlVars >>

WorkerSaveFails ==
  /\ calc.op = "worker-page"
  /\ calc.out.index > calc.out.totalPages
  /\ WorkerCatches("Erro inesperado.")
  /\ UNCHANGED << diffVars, runVars, morph, swapped, ctlVars >>

NextWorker ==
  \/ WorkerReceives
  \/ WorkerLoads
  \/ WorkerLoadFails
  \/ WorkerLibLoads
  \/ WorkerLibLoadFails
  \/ WorkerPageStatus
  \/ WorkerRendersPage
  \/ WorkerRenderFails
  \/ WorkerAddsPages
  \/ WorkerCopyFails
  \/ WorkerSavesAndPosts
  \/ WorkerSaveFails

\* Every awaited promise settles, so the handler always takes its next step.
SpecWorker == InitWorker /\ [][NextWorker]_vars /\ WF_vars(NextWorker)

\* ---------------------------------------------------------------------------
\* C33: for every non-empty request the diff worker posts exactly one
\* terminal message, a 'result' or an 'error'; every status precedes it; the
\* page statuses are those of pages 1, 2, ... in ascending order, each "de N"
\* with N = min(oldPages, newPages), and all N of them before a result; the
\* result document has 2N pages; with N = 0 there is an error and no result.
Terminals ==
  {k \in DOMAIN calc.out.posted : calc.out.posted[k].type \in {"result", "error"}}

PageStatuses ==
  SelectSeq(calc.out.posted,
            LAMBDA m : m.type = "status" /\ m.text = "Processando página")

ComparedPages == Min2(calc.args.oldPdf.numPages, calc.args.newPdf.numPages)

OneTerminalLast ==
  /\ Cardinality(Terminals) <= 1
  /\ Terminals \subseteq {Len(calc.out.posted)}
  /\ calc.op = "worker-done" <=> Terminals # {}

PagesAscending ==
  /\ Len(PageStatuses) <= ComparedPages
  /\ \A i \in DOMAIN PageStatuses :
       PageStatuses[i].index = i /\ PageStatuses[i].total = ComparedPages

ResultHasAllPages ==
  \A k \in Terminals :
    calc.out.posted[k].type = "result" =>
      /\ ComparedPages > 0
      /\ Len(PageStatuses) = ComparedPages
      /\ calc.out.posted[k].total = 2 * ComparedPages

WorkerMessagesInOrder == OneTerminalLast /\ PagesAscending /\ ResultHasAllPages

C33_OneTerminalMessage ==
  /\ [](calc.op \in {"worker-idle", "worker-returned"} \/ WorkerMessagesInOrder)
  /\ (calc.op = "worker-loading") ~> (Terminals # {})

C33_Witness ==
  /\ calc.op = "worker-done"
  /\ ComparedPages = MaxPages
  /\ calc.args.oldPdf.numPages # calc.args.newPdf.numPages
  /\ calc.out.posted[Len(calc.out.posted)].type = "result"

C33_WitnessNoPages ==
  /\ calc.op = "worker-done"
  /\ ComparedPages = 0
  /\ calc.out.posted[Len(calc.out.posted)].type = "error"

\* ---------------------------------------------------------------------------
\* C34: the compare worker handles requests one at a time: no progress or
\* result message of a later request is posted before the result of an
\* earlier one, and once every run has finished the outputs that hold a PDF
\* are those of the configuration posted last.
NoRunOvertaken == ~engine.overtaken

FinalOutputsOfLastPosted ==
  (engine.phase = "live" /\ engine.inbox = << >> /\ engine.outputs.outputPdfBase64 # << >>) =>
    /\ engine.sent # << >>
    /\ engine.outputs.outputPdfBase64[1] = engine.sent[Len(engine.sent)].payload

C34_RunsOneAtATime == NoRunOvertaken /\ FinalOutputsOfLastPosted

\* ---------------------------------------------------------------------------
\* C35: the engine control posts a given unchanged configuration at most
\* once: no two requests are posted without a change of the inputs between
\* them, and a start on the rising edge of runCompare is not followed by a
\* start from the debounce timer for the same inputs. (A single timeout
\* handle makes at most one debounce timer pending.)
PostedOncePerChange ==
  \A i, j \in DOMAIN engine.sent :
    (i < j /\ engine.sent[i].epoch = engine.sent[j].epoch) =>
      engine.sent[i].payload # engine.sent[j].payload

EdgeStartNotRepeatedByTimer ==
  \A i \in DOMAIN engine.sent :
    (i > 1 /\ engine.sent[i].by = "timer"
       /\ engine.sent[i - 1].by \in {"init", "updateView"}) =>
      \/ engine.sent[i].epoch # engine.sent[i - 1].epoch
      \/ engine.sent[i].payload # engine.sent[i - 1].payload

C35_UnchangedConfigurationPostedOnce ==
  PostedOncePerChange /\ EdgeStartNotRepeatedByTimer

\* ---------------------------------------------------------------------------
\* C36: in the engine control a change of oldPdfBase64 or newPdfBase64, with
\* the other inputs and runCompare unchanged, schedules a new comparison,
\* also when the values differ only after their first 24 characters; two
\* different configurations never have the same change-detection key.
OnlyPdfChanges ==
  /\ engine.phase = "live"
  /\ engine'.updates = engine.updates + 1
  /\ engine'.context[1].runCompare = engine.context[1].runCompare
  /\ \/ engine'.context[1].oldPdfBase64 # engine.context[1].oldPdfBase64
     \/ engine'.context[1].newPdfBase64 # engine.context[1].newPdfBase64
  /\ \A field \in DOMAIN BaseContext \ {"oldPdfBase64", "newPdfBase64"} :
       engine'.context[1][field] = engine.context[1][field]

SchedulesComparison ==
  \/ engine'.debounceHandle
  \/ Len(engine'.inbox) > Len(engine.inbox)

KeyChanges ==
  hashInputs(engine'.latestInputs[1]) # hashInputs(engine.latestInputs[1])

C36_PdfChangeSchedulesComparison ==
  [][OnlyPdfChanges => (SchedulesComparison /\ KeyChanges)]_vars

\* ---------------------------------------------------------------------------
\* C37: with constant inputs the engine control quiesces: once the
\* comparison of the inputs has been started, or "Waiting for both PDFs..."
\* has been reported because a PDF is missing, and no timer is pending, an
\* updateView with the same inputs arms no debounce timer and starts no
\* comparison.
SameInputsAgain ==
  /\ engine.phase = "live"
  /\ engine'.phase = "live"
  /\ engine'.updates = engine.updates + 1
  /\ engine'.context = engine.context

ComparisonStarted ==
  /\ engine.latestInputs # << >>
  /\ engine.lastRunInputsKey = hashInputs(engine.latestInputs[1])
  /\ engine.sent # << >>
  /\ engine.sent[Len(engine.sent)].payload = engine.latestInputs[1]

WaitingReported ==
  /\ engine.latestInputs # << >>
  /\ \/ IsEmptyPdf(engine.latestInputs[1].oldPdfBase64)
     \/ IsEmptyPdf(engine.latestInputs[1].newPdfBase64)
  /\ engine.outputs.status = "Waiting for both PDFs..."

C37_ConstantInputsQuiesce ==
  [][(SameInputsAgain /\ ~engine.debounceHandle /\ (ComparisonStarted \/ WaitingReported)) =>
       (~engine'.debounceHandle /\ engine'.inbox = engine.inbox)]_vars

\* ---------------------------------------------------------------------------
\* The React viewer (frontend CompareSetViewer.tsx): its state hooks, the
\* file inputs, the Compare and the sample buttons, and the requests in
\* flight, each with the files its handleCompare call captured.

\* Number of user actions followed in one behaviour.
MaxClicks == 5

NoFile == ""
UserFiles == {"a.pdf", "b.pdf"}
NoResultUrl == << >>
\* The comparison the server computes from the two uploaded files.
ComparisonOf(old, new) == [old |-> old, new |-> new]
SampleResult == ComparisonOf("sample-old.pdf", "sample-new.pdf")

InitViewer ==
  /\ DiffIdle
  /\ RunIdle
  /\ morph = NoMorph
  /\ swapped = NoSwapped
  /\ CtlIdle
  /\ calc = [op |-> "viewer", args |-> << >>,
             out |-> [oldFile |-> NoFile, newFile |-> NoFile,
                      resultUrl |-> NoResultUrl, status |-> "idle",
                      progress |-> 0, isMocking |-> FALSE,
                      requests |-> << >>, mock |-> "none", clicks |-> 0]]

canCompare(v) ==
  /\ v.oldFile # NoFile
  /\ v.newFile # NoFile
  /\ v.status # "uploading"
  /\ v.status # "processing"

\* handleFileChange: an event without files changes nothing; a chosen file
\* is stored, the result dropped and the status set to idle.
handleFileChange(v, file, target) ==
  IF file = NoFile THEN v
  ELSE [(IF target = "old" THEN [v EXCEPT !.oldFile = file]
         ELSE [v EXCEPT !.newFile = file])
        EXCEPT !.resultUrl = NoResultUrl, !.status = "idle", !.progress = 0]

ViewerFileChange ==
  /\ calc.op = "viewer"
  /\ calc.out.clicks < MaxClicks
  /\ \E file \in UserFiles \cup {NoFile}, target \in {"old", "new"} :
       calc' = [calc EXCEPT
                  !.out = handleFileChange([@ EXCEPT !.clicks = @ + 1], file, target)]
  /\ UNCHANGED << diffVars, runVars, morph, swapped, ctlVars >>

\* handleCompare up to the await of fetch; the button is disabled unless
\* canCompare.
ViewerCompareClick ==
  /\ calc.op = "viewer"
  /\ calc.out.clicks < MaxClicks
  /\ canCompare(calc.out)
  /\ calc' = [calc EXCEPT
                !.out.clicks = @ + 1,
                !.out.status = "uploading",
                !.out.progress = 10,
                !.out.requests = Append(@, [old |-> calc.out.oldFile,
                                            new |-> calc.out.newFile,
                                            stage |-> "fetch"])]
  /\ UNCHANGED << diffVars, runVars, morph, swapped, ctlVars >>

\* The response of a request arrives with an ok status.
ViewerResponseOk ==
  /\ calc.op = "viewer"
  /\ \E k \in DOMAIN calc.out.requests :
       /\ calc.out.requests[k].stage = "fetch"
       /\ calc' = [calc EXCEPT !.out.status = "processing",
                               !.out.progress = 60,
                               !.out.requests[k].stage = "body"]
  /\ UNCHANGED << diffVars, runVars, morph, swapped, ctlVars >>

\* fetch rejects, the response is not ok, or its body cannot be read.
ViewerRequestFails ==
  /\ calc.op = "viewer"
  /\ \E k \in DOMAIN calc.out.requests :
       calc' = [calc EXCEPT !.out.status = "error",
                            !.out.progress = 0,
                            !.out.requests = RemoveAt(@, k)]
  /\ UNCHANGED << diffVars, runVars, morph, swapped, ctlVars >>

\* The body of a response has been read: the result is shown.
ViewerShowsResult ==
  /\ calc.op = "viewer"
  /\ \E k \in DOMAIN calc.out.requests :
       /\ calc.out.requests[k].stage = "body"
       /\ calc' = [calc EXCEPT
                     !.out.resultUrl = << ComparisonOf(calc.out.requests[k].old,
                                                       calc.out.requests[k].new) >>,
                     !.out.status = "complete",
                     !.out.progress = 100,
                     !.out.requests = RemoveAt(@, k)]
  /\ UNCHANGED << diffVars, runVars, morph, swapped, ctlVars >>

\* handleMockComparison up to its first await.
ViewerMockClick ==
  /\ calc.op = "viewer"
  /\ calc.out.clicks < MaxClicks
  /\ calc.out.status \notin {"uploading", "processing"}
  /\ ~calc.out.isMocking
  /\ calc' = [calc EXCEPT !.out.clicks = @ + 1,
                          !.out.isMocking = TRUE,
                          !.out.status = "uploading",
                          !.out.progress = 20,
                          !.out.mock = "fetch"]
  /\ UNCHANGED << diffVars, runVars, morph, swapped, ctlVars >>

\* The three sample responses are ok.
ViewerMockFetched ==
  /\ calc.op = "viewer"
  /\ calc.out.mock = "fetch"
  /\ calc' = [calc EXCEPT !.out.mock = "body"]
  /\ UNCHANGED << diffVars, runVars, morph, swapped, ctlVars >>

\* The sample files and the sample result are shown.
ViewerMockLoaded ==
  /\ calc.op = "viewer"
  /\ calc.out.mock = "body"
  /\ calc' = [calc EXCEPT !.out.mock = "none",
                          !.out.oldFile = "sample-old.pdf",
                          !.out.newFile = "sample-new.pdf",
                          !.out.resultUrl = << SampleResult >>,
                          !.out.status = "complete",
                          !.out.progress = 100,
                          !.out.isMocking = FALSE]
  /\ UNCHANGED << diffVars, runVars, morph, swapped, ctlVars >>

ViewerMockFails ==
  /\ calc.op = "viewer"
  /\ calc.out.mock # "none"
  /\ calc' = [calc EXCEPT !.out.mock = "none",
                          !.out.status = "error",
                          !.out.progress = 0,
                          !.out.isMocking = FALSE]
  /\ UNCHANGED << diffVars, runVars, morph, swapped, ctlVars >>

NextViewer ==
  \/ ViewerFileChange
  \/ ViewerCompareClick
  \/ ViewerResponseOk
  \/ ViewerRequestFails
  \/ ViewerShowsResult
  \/ ViewerMockClick
  \/ ViewerMockFetched
  \/ ViewerMockLoaded
  \/ ViewerMockFails

SpecViewer == InitViewer /\ [][NextViewer]_vars

\* ---------------------------------------------------------------------------
\* C38: in the React viewer, whenever the status is 'complete' and a result
\* is shown, the result was computed from the files selected now, and no
\* second compare request is started while the first is unanswered.
ResultIsOfSelectedFiles ==
  (calc.out.status = "complete" /\ calc.out.resultUrl # NoResultUrl) =>
    calc.out.resultUrl = << ComparisonOf(calc.out.oldFile, calc.out.newFile) >>

OneRequestInFlight == Len(calc.out.requests) <= 1

C38_ResultOfSelectedFiles == ResultIsOfSelectedFiles /\ OneRequestInFlight

====
